---- MODULE Spec2Model ----
(***************************************************************************)
(* Public-key kernel of the Cryptosyst-me teaching corpus:                 *)
(*   Signature/RSAsignature.py                 (RSA signature)             *)
(*   Signature/Elgamelsignature.py             (ElGamal signature)         *)
(*   chiffrement asymetrique/EL GAMAL/gamel.py (ElGamal encryption)        *)
(*   chiffrement asymetrique/RSA/rsa (1).py    (RSA encryption)            *)
(* One run of the model is one run of one of the four scripts: `prog`      *)
(* names the script, `keys` is the key pair its main() holds and `out` the  *)
(* last call: its arguments, the locals it ended with and its outcome.     *)
(* Random draws and user inputs are the \E of the actions.                 *)
(* A call is made from the prompt (out.op = "menu"), or on the result of   *)
(* the call before it (a verification of the signature just produced, a    *)
(* decryption of the ciphertext just produced); Menu returns to the prompt.*)
(***************************************************************************)
EXTENDS Integers, Sequences, FiniteSets, TLC

VARIABLES prog, keys, out

vars == <<prog, keys, out>>

(***************************************************************************)
(* Bounds of the model.                                                    *)
(***************************************************************************)
\* random.getrandbits(b) is explored on 0..MaxDraw (and on BigDraw)
MaxDraw == 11
\* randrange/randint draws of the public exponent are explored on 2..MaxEDraw
MaxEDraw == 12
\* digests are explored on 0..MaxDigest and around the modulus
MaxDigest == 16
\* TLC's integers are 32-bit: moduli are kept below 2^29
MaxModulus == 536870911
\* 2^30: products of the model's multiplication stay below it
MulLimit == 1073741824

(***************************************************************************)
(* Outcomes of a call: a returned value, a returned None, a raised error.  *)
(***************************************************************************)
Return(v) == [kind |-> "return", val |-> v]
ReturnNone == [kind |-> "none", val |-> 0]
Raise(e) == [kind |-> "raise", val |-> e]

NoKeys == [none |-> TRUE]

\* an optional input: <<>> when the user just presses Enter (None), <<v>>
\* when v is typed
Optional(S) == {<<>>} \cup {<<v>> : v \in S}

(***************************************************************************)
(* Python's arbitrary-precision integer arithmetic.                        *)
(***************************************************************************)
Min(a, b) == IF a < b THEN a ELSE b
Max(a, b) == IF a > b THEN a ELSE b

RECURSIVE Pow2(_)
Pow2(k) == IF k <= 0 THEN 1 ELSE 2 * Pow2(k - 1)

\* (a * b) % m, exactly, for 0 <= a, b < m <= MaxModulus: b is taken in
\* digits of base MulLimit \div m, so that no product exceeds 32 bits
RECURSIVE MulMod(_, _, _)
MulMod(a, b, m) ==
    LET c == MulLimit \div m
    IN  IF b < c THEN (a * b) % m
        ELSE (MulMod(a, b \div c, m) * c + a * (b % c)) % m

\* the built-in pow(base, exp, mod), exp >= 0, mod >= 1, by square and
\* multiply; the test r2 >= 0 /\ b2 >= 0 is always true and only makes the
\* two products be computed before the next step
RECURSIVE powloop(_, _, _, _)
powloop(result, base, exp, mod) ==
    IF exp = 0 THEN result
    ELSE LET r2 == IF exp % 2 = 1 THEN MulMod(result, base, mod) ELSE result
             b2 == MulMod(base, base, mod)
         IN  IF r2 >= 0 /\ b2 >= 0 THEN powloop(r2, b2, exp \div 2, mod) ELSE 0

pow(base, exp, mod) == IF mod = 1 THEN 0 ELSE powloop(1, base % mod, exp, mod)

\* pow(base, exp, mod) where exp can be negative: the inverse of base is
\* raised to -exp, ValueError when base has no inverse
pow_signed(base, exp, mod) ==
    IF exp >= 0 THEN Return(pow(base, exp, mod))
    ELSE LET inv == {v \in 0..(mod - 1) : (base * v) % mod = 1 % mod}
         IN  IF inv = {}
             THEN Raise("base is not invertible for the given modulus")
             ELSE Return(pow(CHOOSE v \in inv : TRUE, -exp, mod))

\* reference values, used by the properties only
RECURSIVE GCD(_, _)
GCD(a, b) == IF b = 0 THEN a ELSE GCD(b, a % b)

IsPrime(n) == n > 1 /\ \A f \in 2..(n - 1) : f > n \div f \/ n % f # 0

RECURSIVE PowRef(_, _, _)
PowRef(b, e, m) ==
    IF e = 0 THEN 1 % m
    ELSE LET sq == MulMod(PowRef(b, e \div 2, m), PowRef(b, e \div 2, m), m)
         IN  IF e % 2 = 1 THEN MulMod(sq, b % m, m) ELSE sq

(***************************************************************************)
(* Miller-Rabin, the part the three is_prime share (the loop body).        *)
(***************************************************************************)
\* n - 1 = 2^r * d: <<r, d>>
RECURSIVE mr_split(_, _)
mr_split(d, r) == IF d % 2 = 0 THEN mr_split(d \div 2, r + 1) ELSE <<r, d>>

\* for _ in range(i): x = pow(x, 2, n); if x == n - 1: break / else: return False
RECURSIVE mr_square(_, _, _)
mr_square(n, x, i) ==
    IF i <= 0 THEN FALSE
    ELSE LET x2 == pow(x, 2, n)
         IN  IF x2 = n - 1 THEN TRUE ELSE mr_square(n, x2, i - 1)

\* a faulty variant of one round, which lets a^d = 1 pass but treats
\* a^d = n - 1 as any other value; C12 has to tell it from the code's
mr_round_one_only(n, d, r, a) ==
    LET x == pow(a, d, n)
    IN  IF x = 1 THEN TRUE ELSE mr_square(n, x, r - 1)

\* one round with witness a: TRUE when the round passes (continue / break),
\* FALSE when it makes is_prime return False
mr_round(n, d, r, a) ==
    LET x == pow(a, d, n)
    IN  IF x = 1 \/ x = n - 1 THEN TRUE ELSE mr_square(n, x, r - 1)

\* for _ in range(k): a = random.randint(2, n - 2) ... : whether the k rounds
\* can end with is_prime returning b
RECURSIVE mr_rounds(_, _, _, _, _)
mr_rounds(n, d, r, k, b) ==
    IF k = 0 THEN b
    ELSE \/ ~b /\ \E a \in 2..(n - 2) : ~mr_round(n, d, r, a)
         \/ /\ \E a \in 2..(n - 2) : mr_round(n, d, r, a)
            /\ mr_rounds(n, d, r, k - 1, b)

\* default round count k=5
MRRounds == 5

\* a faulty variant of the rounds, in which a round that does not pass only
\* counts when it is the last one; C14 has to tell it from the code's
RECURSIVE mr_run_keep_going(_, _, _, _, _)
mr_run_keep_going(n, d, r, ws, i) ==
    IF i > Len(ws) THEN [res |-> TRUE, rounds |-> Len(ws)]
    ELSE IF mr_round(n, d, r, ws[i]) \/ i < Len(ws)
    THEN mr_run_keep_going(n, d, r, ws, i + 1)
    ELSE [res |-> FALSE, rounds |-> i]

\* the rounds from round i on, ws[i] the a that round i draws and Len(ws) the
\* k of the call: what is_prime returns and the number of rounds it ran
RECURSIVE mr_run(_, _, _, _, _)
mr_run(n, d, r, ws, i) ==
    IF i > Len(ws) THEN [res |-> TRUE, rounds |-> Len(ws)]
    ELSE IF mr_round(n, d, r, ws[i]) THEN mr_run(n, d, r, ws, i + 1)
    ELSE [res |-> FALSE, rounds |-> i]

(***************************************************************************)
(* Python's text functions.  A str is a sequence of code points, a bytes   *)
(* object a sequence of 0..255.                                            *)
(***************************************************************************)
\* str(n), n >= 0
RECURSIVE str(_)
str(n) == IF n < 10 THEN <<48 + n>> ELSE Append(str(n \div 10), 48 + (n % 10))

\* ','.join(parts)
RECURSIVE join(_)
join(parts) ==
    IF Len(parts) = 0 THEN <<>>
    ELSE IF Len(parts) = 1 THEN parts[1]
    ELSE parts[1] \o <<44>> \o join(Tail(parts))

\* s.split(','): the pieces between the commas, [''] for the empty string
RECURSIVE split(_, _)
split(s, piece) ==
    IF Len(s) = 0 THEN <<piece>>
    ELSE IF Head(s) = 44 THEN <<piece>> \o split(Tail(s), <<>>)
    ELSE split(Tail(s), Append(piece, Head(s)))

\* the white space int() strips from both ends of its argument
IntSpaces ==
    {9, 10, 11, 12, 13, 32, 133, 160, 5760} \cup (8192..8202)
        \cup {8232, 8233, 8239, 8287, 12288}

\* the digit zero of every decimal digit run of Unicode (category Nd): the
\* ten digits of a run are consecutive
DecimalZeros ==
    {48, 1632, 1776, 1984, 2406, 2534, 2662, 2790, 2918, 3046, 3174, 3302,
     3430, 3558, 3664, 3792, 3872, 4160, 4240, 6112, 6160, 6470, 6608, 6784,
     6800, 6992, 7088, 7232, 7248, 42528, 43216, 43264, 43472, 43504, 43600,
     44016, 65296, 66720, 68912, 69734, 69872, 69942, 70096, 70384, 70736,
     70864, 71248, 71360, 71472, 71904, 72016, 72784, 73040, 73120, 92768,
     92864, 93008, 120782, 120792, 120802, 120812, 120822, 123200, 123632,
     125264, 130032}

\* the value of the decimal digit c, -1 when c is not one
DigitValue(c) ==
    IF \E z \in DecimalZeros : z <= c /\ c <= z + 9
    THEN c - (CHOOSE z \in DecimalZeros : z <= c /\ c <= z + 9)
    ELSE -1

RECURSIVE lstrip(_)
lstrip(s) ==
    IF Len(s) > 0 /\ Head(s) \in IntSpaces THEN lstrip(Tail(s)) ELSE s

RECURSIVE rstrip(_)
rstrip(s) ==
    IF Len(s) > 0 /\ s[Len(s)] \in IntSpaces
    THEN rstrip(SubSeq(s, 1, Len(s) - 1)) ELSE s

\* the number the digits of s write, underscores skipped
RECURSIVE digits_value(_, _)
digits_value(s, acc) ==
    IF Len(s) = 0 THEN acc
    ELSE IF Head(s) = 95 THEN digits_value(Tail(s), acc)
    ELSE digits_value(Tail(s), 10 * acc + DigitValue(Head(s)))

\* sys.get_int_max_str_digits(): the most digits int() converts
int_max_str_digits == 4300

\* int(s) for a str: white space around, an optional sign, then decimal
\* digits of any script with single underscores between digits; ValueError
\* otherwise.  The digits and underscores in front are scanned first: an
\* underscore out of place is an invalid literal, then more than
\* int_max_str_digits digits exceed the limit, and only then is anything
\* behind the scanned part an invalid literal
int(s) ==
    LET t == rstrip(lstrip(s))
        signed == Len(t) > 0 /\ t[1] \in {43, 45}
        body == IF signed THEN Tail(t) ELSE t
        others == {i \in 1..Len(body) :
                      DigitValue(body[i]) < 0 /\ body[i] # 95}
        scanned == IF others = {} THEN Len(body)
                   ELSE (CHOOSE i \in others : \A j \in others : i <= j) - 1
        wellformed ==
            /\ scanned > 0
            /\ body[1] # 95 /\ body[scanned] # 95
            /\ \A i \in 1..(scanned - 1) : body[i] # 95 \/ body[i + 1] # 95
        digits == Cardinality({i \in 1..scanned : body[i] # 95})
    IN  IF ~wellformed THEN Raise("invalid literal for int() with base 10")
        ELSE IF digits > int_max_str_digits
        THEN Raise("Exceeds the limit (4300 digits) for integer string conversion")
        ELSE IF scanned < Len(body)
        THEN Raise("invalid literal for int() with base 10")
        ELSE IF signed /\ t[1] = 45 THEN Return(0 - digits_value(body, 0))
        ELSE Return(digits_value(body, 0))

\* the base64 alphabet A-Z a-z 0-9 + /, and the padding '='
B64Alphabet ==
    [i \in 0..63 |-> IF i < 26 THEN 65 + i
                     ELSE IF i < 52 THEN 97 + (i - 26)
                     ELSE IF i < 62 THEN 48 + (i - 52)
                     ELSE IF i = 62 THEN 43 ELSE 47]
B64Pad == 61

RECURSIVE b64encode(_)
b64encode(bs) ==
    IF Len(bs) = 0 THEN <<>>
    ELSE IF Len(bs) = 1
    THEN <<B64Alphabet[bs[1] \div 4], B64Alphabet[(bs[1] % 4) * 16], B64Pad, B64Pad>>
    ELSE IF Len(bs) = 2
    THEN <<B64Alphabet[bs[1] \div 4],
           B64Alphabet[(bs[1] % 4) * 16 + (bs[2] \div 16)],
           B64Alphabet[(bs[2] % 16) * 4], B64Pad>>
    ELSE <<B64Alphabet[bs[1] \div 4],
           B64Alphabet[(bs[1] % 4) * 16 + (bs[2] \div 16)],
           B64Alphabet[(bs[2] % 16) * 4 + (bs[3] \div 64)],
           B64Alphabet[bs[3] % 64]>> \o b64encode(SubSeq(bs, 4, Len(bs)))

B64Index(c) == CHOOSE i \in 0..63 : B64Alphabet[i] = c
B64Char(c) == \E i \in 0..63 : B64Alphabet[i] = c

\* binascii.a2b_base64 without strict mode, from character i on: quad_pos is
\* the place in the group of four, leftchar the bits not yet written, pads
\* the padding characters seen since the last data character.  Characters
\* outside the alphabet are skipped, a padding that completes the group ends
\* the decoding whatever follows, and a group left open at the end raises
\* binascii.Error
RECURSIVE b64scan(_, _, _, _, _, _)
b64scan(s, i, quad_pos, leftchar, pads, bin_data) ==
    IF i > Len(s)
    THEN IF quad_pos = 0 THEN Return(bin_data)
         ELSE IF quad_pos = 1
         THEN Raise("Invalid base64-encoded string")
         ELSE Raise("Incorrect padding")
    ELSE IF s[i] = B64Pad
    THEN IF quad_pos >= 2 /\ quad_pos + pads + 1 >= 4 THEN Return(bin_data)
         ELSE b64scan(s, i + 1, quad_pos, leftchar,
                      IF quad_pos >= 2 THEN pads + 1 ELSE pads, bin_data)
    ELSE IF ~B64Char(s[i])
    THEN b64scan(s, i + 1, quad_pos, leftchar, pads, bin_data)
    ELSE LET this_ch == B64Index(s[i])
         IN  IF quad_pos = 0
             THEN b64scan(s, i + 1, 1, this_ch, 0, bin_data)
             ELSE IF quad_pos = 1
             THEN b64scan(s, i + 1, 2, this_ch % 16, 0,
                          Append(bin_data, leftchar * 4 + (this_ch \div 16)))
             ELSE IF quad_pos = 2
             THEN b64scan(s, i + 1, 3, this_ch % 4, 0,
                          Append(bin_data, leftchar * 16 + (this_ch \div 4)))
             ELSE b64scan(s, i + 1, 0, 0, 0,
                          Append(bin_data, leftchar * 64 + this_ch))

\* base64.b64decode(s) for a str s: ValueError when s is not ASCII
b64decode(s) ==
    IF \E i \in 1..Len(s) : s[i] > 127
    THEN Raise("string argument should contain only ASCII characters")
    ELSE b64scan(s, 1, 0, 0, 0, <<>>)

\* a continuation byte of UTF-8
Utf8Cont(b) == 128 <= b /\ b <= 191

\* bytes.decode('utf-8'): the code points, UnicodeDecodeError on a byte
\* sequence that is not well-formed UTF-8 (overlong forms and surrogates
\* included)
RECURSIVE utf8_decode(_, _)
utf8_decode(bs, text) ==
    IF Len(bs) = 0 THEN Return(text)
    ELSE LET b == bs[1]
             n == Len(bs)
         IN  IF b < 128 THEN utf8_decode(Tail(bs), Append(text, b))
             ELSE IF 194 <= b /\ b <= 223 /\ n >= 2 /\ Utf8Cont(bs[2])
             THEN utf8_decode(SubSeq(bs, 3, n),
                              Append(text, (b - 192) * 64 + (bs[2] - 128)))
             ELSE IF /\ 224 <= b /\ b <= 239 /\ n >= 3
                     /\ Utf8Cont(bs[2]) /\ Utf8Cont(bs[3])
                     /\ (b = 224 => bs[2] >= 160)
                     /\ (b = 237 => bs[2] <= 159)
             THEN utf8_decode(SubSeq(bs, 4, n),
                              Append(text, (b - 224) * 4096 + (bs[2] - 128) * 64
                                               + (bs[3] - 128)))
             ELSE IF /\ 240 <= b /\ b <= 244 /\ n >= 4
                     /\ Utf8Cont(bs[2]) /\ Utf8Cont(bs[3]) /\ Utf8Cont(bs[4])
                     /\ (b = 240 => bs[2] >= 144)
                     /\ (b = 244 => bs[2] <= 143)
             THEN utf8_decode(SubSeq(bs, 5, n),
                              Append(text, (b - 240) * 262144
                                               + (bs[2] - 128) * 4096
                                               + (bs[3] - 128) * 64
                                               + (bs[4] - 128)))
             ELSE Raise("'utf-8' codec can't decode byte")

(***************************************************************************)
(* Signature/RSAsignature.py                                               *)
(***************************************************************************)
\* is_prime(n, k) can return b
RSAsig_is_prime(n, k, b) ==
    IF n <= 1 \/ n = 4 THEN ~b
    ELSE IF n <= 3 THEN b
    ELSE LET rd == mr_split(n - 1, 0)
         IN  mr_rounds(n, rd[2], rd[1], k, b)

\* a prime 2^16 * 14 + 15 = 65537 * 14 + 1, the smallest p with 65537 | p - 1
BigDraw == 917518

\* random.getrandbits(bits), as explored
getrandbits(bits) == {x \in (0..MaxDraw) \cup {BigDraw} : x < Pow2(bits)}

\* the values generate_prime(bits) can return
RSAsig_generate_prime(bits) ==
    {p \in {IF x % 2 = 0 THEN x + 1 ELSE x : x \in getrandbits(bits)} :
        RSAsig_is_prime(p, MRRounds, TRUE)}

RECURSIVE RSAsig_gcd(_, _)
RSAsig_gcd(a, b) == IF b # 0 THEN RSAsig_gcd(b, a % b) ELSE a

RECURSIVE RSAsig_extended_gcd(_, _)
RSAsig_extended_gcd(a, b) ==
    IF a = 0 THEN <<b, 0, 1>>
    ELSE LET t == RSAsig_extended_gcd(b % a, a)
         IN  <<t[1], t[3] - (b \div a) * t[2], t[2]>>

\* a faulty variant of mod_inverse, without the reduction modulo phi; C9 has
\* to tell it from the code's
RSAsig_mod_inverse_unreduced(e, phi) ==
    LET t == RSAsig_extended_gcd(e, phi)
    IN  IF t[1] # 1 THEN Raise("L'inverse modulaire n'existe pas")
        ELSE Return(t[2])

RSAsig_mod_inverse(e, phi) ==
    LET t == RSAsig_extended_gcd(e, phi)
    IN  IF t[1] # 1 THEN Raise("L'inverse modulaire n'existe pas")
        ELSE Return(t[2] % phi)

\* e = 65537; while gcd(e, phi) != 1: e = random.randrange(2, phi)
RSAsig_PublicExponent == 65537

RSAsig_choose_e(phi) ==
    IF RSAsig_gcd(RSAsig_PublicExponent, phi) = 1 THEN {RSAsig_PublicExponent}
    ELSE {e \in 2..Min(phi - 1, MaxEDraw) : RSAsig_gcd(e, phi) = 1}

\* a faulty variant of sign, whose test is h > n; C21 has to tell it from
\* the code's
RSAsig_sign_lenient(h, private_key) ==
    IF h > private_key.n
    THEN Raise("Le hash du message est trop grand pour cette cle RSA")
    ELSE Return(pow(h, private_key.d, private_key.n))

\* sign(message, private_key) on the digest h = hash_message(message)
RSAsig_sign(h, private_key) ==
    IF h >= private_key.n
    THEN Raise("Le hash du message est trop grand pour cette cle RSA")
    ELSE Return(pow(h, private_key.d, private_key.n))

\* A Python integer that can exceed the width of the model's integers is
\* carried as a wide integer: its sign and the base-256 digits of its
\* absolute value, most significant first, without leading zeros.
RECURSIVE to_bytes(_)
to_bytes(n) == IF n = 0 THEN <<>> ELSE Append(to_bytes(n \div 256), n % 256)

Wide(n) == [neg |-> n < 0, digits |-> to_bytes(IF n < 0 THEN 0 - n ELSE n)]

\* int.from_bytes(signature_bytes, byteorder='big')
RECURSIVE from_bytes(_)
from_bytes(signature_bytes) ==
    IF Len(signature_bytes) > 0 /\ signature_bytes[1] = 0
    THEN from_bytes(Tail(signature_bytes))
    ELSE [neg |-> FALSE, digits |-> signature_bytes]

\* w % n for a wide integer w, n >= 1
RECURSIVE wide_residue(_, _, _)
wide_residue(digits, acc, n) ==
    IF Len(digits) = 0 THEN acc
    ELSE wide_residue(Tail(digits),
                      (MulMod(acc, 256 % n, n) + (Head(digits) % n)) % n, n)

wide_mod(w, n) ==
    LET r == wide_residue(w.digits, 0, n)
    IN  IF w.neg THEN (n - r) % n ELSE r

\* serialize_signature(signature):
\* signature.to_bytes((signature.bit_length() + 7) // 8, byteorder='big'),
\* encoded in Base64
serialize_signature(signature) == b64encode(to_bytes(signature))

\* deserialize_signature(signature_str): every exception is raised again as
\* ValueError
deserialize_signature(signature_str) ==
    LET signature_bytes == b64decode(signature_str)
    IN  IF signature_bytes.kind # "return"
        THEN Raise("Format de signature invalide")
        ELSE Return(from_bytes(signature_bytes.val))

\* main(), choice 2: the signature typed in is read as Base64 first and as
\* an integer when that raises
read_signature(signature_input) ==
    LET decoded == deserialize_signature(signature_input)
    IN  IF decoded.kind = "return" THEN decoded
        ELSE LET number == int(signature_input)
             IN  IF number.kind = "return" THEN Return(Wide(number.val))
                 ELSE number

\* verify(message, signature, public_key) on the digest h, signature a wide
\* integer: pow(signature, e, n) reduces its base modulo n first
RSAsig_verify(h, signature, public_key) ==
    h = pow(wide_mod(signature, public_key.n), public_key.e, public_key.n)

\* the digests explored for modulus n
Digests(n) == (0..Min(n + 1, MaxDigest)) \cup {n - 1, n, n + 1}

\* bit lengths the user is offered
BitLengths == {16, 40}

\* generate_keypair(bits): the locals it can end with
RSAsig_generate_keypair(bits) ==
    UNION {UNION {
        LET n == p * q
            phi == (p - 1) * (q - 1)
        IN  {[bits |-> bits, p |-> p, q |-> q, n |-> n, phi |-> phi, e |-> e,
              d |-> RSAsig_mod_inverse(e, phi)] : e \in RSAsig_choose_e(phi)}
        : q \in {q \in RSAsig_generate_prime(bits \div 2) : p <= MaxModulus \div q}}
        : p \in RSAsig_generate_prime(bits \div 2)}

RSAsig_generated == UNION {RSAsig_generate_keypair(bits) : bits \in BitLengths}

\* menu choice 3 (and the start-up choice 1): keys = generate_keypair(bits)
RSAsig_Generate ==
    /\ prog = "RSAsignature"
    /\ out.op = "menu"
    /\ \E g \in RSAsig_generated :
          /\ keys' = IF g.d.kind = "return"
                     THEN [e |-> g.e, n |-> g.n, d |-> g.d.val] ELSE keys
          /\ out' = [op |-> "generate_keypair", bits |-> g.bits, p |-> g.p,
                     q |-> g.q, phi |-> g.phi, e |-> g.e, res |-> g.d]
    /\ UNCHANGED prog

\* keys["private"][1]: the modulus of the private key, which is the modulus
\* of the public key unless the two were loaded from files that disagree
PrivateModulus(ks) ==
    IF "n_private" \in DOMAIN ks THEN ks.n_private ELSE ks.n

\* main(), choice 1: sign(message, keys["private"])
RSAsig_Sign ==
    /\ prog = "RSAsignature"
    /\ out.op = "menu"
    /\ keys # NoKeys
    /\ \E h \in Digests(PrivateModulus(keys)) :
          out' = [op |-> "sign", h |-> h, key |-> keys,
                  res |-> RSAsig_sign(h, [d |-> keys.d,
                                          n |-> PrivateModulus(keys)])]
    /\ UNCHANGED <<prog, keys>>

\* the ways a signature is typed: as the Base64 text ("base64") and as the
\* decimal number that choice 1 printed ("entier"), the latter also with a
\* space in front
SignatureText(signature, form) ==
    IF form = "base64" THEN serialize_signature(signature)
    ELSE IF form = "entier" THEN str(signature)
    ELSE <<32>> \o str(signature)

\* main(), choice 2, on the message just signed: the signature typed in
\* (that of choice 1, that plus n, or another residue) is read by
\* read_signature and handed to verify(message, signature, keys["public"]);
\* an empty input cancels the operation
RSAsig_Verify ==
    /\ prog = "RSAsignature"
    /\ keys # NoKeys
    /\ out.op = "sign" /\ out.res.kind = "return"
    /\ \E sig \in {out.res.val, out.res.val + keys.n, (out.res.val + 1) % keys.n} :
       \E form \in {"base64", "entier", "entier after a space"} :
          LET signature_input == SignatureText(sig, form)
              signature == read_signature(signature_input)
          IN  /\ signature_input # <<>>
              /\ out' = IF signature.kind # "return"
                        THEN [op |-> "verify_error", h |-> out.h,
                              signature |-> sig, form |-> form,
                              signature_input |-> signature_input,
                              signed |-> out.res.val, res |-> signature]
                        ELSE [op |-> "verify", h |-> out.h, signature |-> sig,
                              form |-> form,
                              signature_input |-> signature_input,
                              received |-> signature.val,
                              signed |-> out.res.val,
                              res |-> RSAsig_verify(out.h, signature.val,
                                          [e |-> keys.e, n |-> keys.n])]
    /\ UNCHANGED <<prog, keys>>

\* load_keys_from_files(private_key_file, public_key_file) on the contents
\* of the two files, <<>> for a file that cannot be read or lacks a field:
\* every exception is caught and None returned; nothing relates the values
\* loaded
RSAsig_load_keys_from_files(private_key_data, public_key_data) ==
    IF private_key_data = <<>> \/ public_key_data = <<>> THEN ReturnNone
    ELSE IF private_key_data[1].n = public_key_data[1].n
    THEN Return([e |-> public_key_data[1].e, n |-> public_key_data[1].n,
                 d |-> private_key_data[1].d])
    ELSE Return([e |-> public_key_data[1].e, n |-> public_key_data[1].n,
                 d |-> private_key_data[1].d,
                 n_private |-> private_key_data[1].n])

\* main(), start-up choice 2: keys = load_keys_from_files(...); None ends the
\* script; the contents of the two key files are drawn from small sets
RSAsig_Load ==
    /\ prog = "RSAsignature"
    /\ out.op = "menu"
    /\ keys = NoKeys
    /\ \E private_key_data \in Optional([d : {1, 3, 5}, n : {1, 22, 33}]) :
       \E public_key_data \in
             Optional([e : {1, 7, 11}, n : {1, 21, 33}]) :
          LET res == RSAsig_load_keys_from_files(private_key_data,
                                                 public_key_data)
          IN  /\ keys' = IF res.kind = "return" THEN res.val ELSE keys
              /\ out' = [op |-> "load_keys_from_files",
                         private_key_data |-> private_key_data,
                         public_key_data |-> public_key_data, res |-> res]
    /\ UNCHANGED prog

\* create_keys_from_components(e, d, n); an absent argument is <<>>, a given
\* one <<value>>. Every ValueError is caught inside and None is returned;
\* warning tells whether the ATTENTION line was printed
RSAsig_create_keys_from_components(e, d, n) ==
    IF n = <<>> THEN [res |-> ReturnNone, warning |-> FALSE]
    ELSE IF e = <<>> /\ d = <<>> THEN [res |-> ReturnNone, warning |-> FALSE]
    ELSE IF e # <<>> /\ d = <<>> THEN [res |-> ReturnNone, warning |-> FALSE]
    ELSE IF d # <<>> /\ e = <<>>
    THEN [res |-> Return([e |-> RSAsig_PublicExponent, n |-> n[1], d |-> d[1]]),
          warning |-> TRUE]
    ELSE [res |-> Return([e |-> e[1], n |-> n[1], d |-> d[1]]),
          warning |-> FALSE]

\* the components typed in
CreateModuli == {15, 33}
CreateExponents == {3, 7}

\* main(), start-up choice 3 and menu choice 5:
\* keys = create_keys_from_components(e, d, n); after None the keys held
\* stay (at start-up there are none and the script returns)
RSAsig_Create ==
    /\ prog = "RSAsignature"
    /\ out.op = "menu"
    /\ \E e \in Optional(CreateExponents), d \in Optional(CreateExponents),
          n \in Optional(CreateModuli) :
          LET c == RSAsig_create_keys_from_components(e, d, n)
          IN  /\ keys' = IF c.res.kind = "return" THEN c.res.val ELSE keys
              /\ out' = [op |-> "create_keys_from_components", e |-> e,
                         d |-> d, n |-> n, held |-> keys,
                         warning |-> c.warning, res |-> c.res]
    /\ UNCHANGED prog

(***************************************************************************)
(* chiffrement asymetrique/RSA/rsa (1).py                                  *)
(* A str is the sequence of its code points, bytes the sequence of their   *)
(* values.                                                                 *)
(***************************************************************************)
\* sympy.isprime: exact on the integers drawn here
isprime(num) == num > 1 /\ \A f \in 2..(num - 1) : f * f > num \/ num % f # 0

\* generate_large_prime(1000, 10000): the draws are explored on
\* RSAPrimeLow..RSAPrimeLow + RSAPrimeSpan
RSAPrimeLow == 1000
RSAPrimeHigh == 10000
RSAPrimeSpan == 21

generate_large_prime(start, end) ==
    {num \in start..Min(end, start + RSAPrimeSpan) : isprime(num)}

RECURSIVE extended_gcd(_, _)
extended_gcd(a, b) ==
    IF a = 0 THEN <<b, 0, 1>>
    ELSE LET t == extended_gcd(b % a, a)
         IN  <<t[1], t[3] - (b \div a) * t[2], t[2]>>

\* a faulty variant of mod_inverse, without the reduction modulo m; C16 has
\* to tell it from the code's
mod_inverse_unreduced(a, m) ==
    LET t == extended_gcd(a, m)
    IN  IF t[1] # 1 THEN Raise("L'inverse modulaire n'existe pas")
        ELSE Return(t[2])

mod_inverse(a, m) ==
    LET t == extended_gcd(a, m)
    IN  IF t[1] # 1 THEN Raise("L'inverse modulaire n'existe pas")
        ELSE Return(t[2] % m)

\* math.gcd
RECURSIVE math_gcd(_, _)
math_gcd(a, b) == IF b = 0 THEN a ELSE math_gcd(b, a % b)

RSAExponent == 65537

\* e = 65537; if gcd(e, phi) != 1: e = randint(2, phi - 1) until gcd(e, phi) == 1
rsa_choose_e(phi) ==
    IF math_gcd(RSAExponent, phi) = 1 THEN {RSAExponent}
    ELSE {e \in 2..Min(phi - 1, MaxEDraw) : math_gcd(e, phi) = 1}

\* generate_rsa_keys(): the locals it can end with; prime2 is drawn again
\* while it equals prime1
generate_rsa_keys ==
    UNION {UNION {
        LET n == prime1 * prime2
            phi == (prime1 - 1) * (prime2 - 1)
        IN  {[p |-> prime1, q |-> prime2, n |-> n, phi |-> phi, e |-> e,
              d |-> mod_inverse(e, phi)] : e \in rsa_choose_e(phi)}
        : prime2 \in generate_large_prime(RSAPrimeLow, RSAPrimeHigh) \ {prime1}}
        : prime1 \in generate_large_prime(RSAPrimeLow, RSAPrimeHigh)}

\* encrypt_rsa(plaintext, public_key)
encrypt_rsa(plaintext, public_key) ==
    IF \E i \in 1..Len(plaintext) : plaintext[i] >= public_key.n
    THEN Raise("Le message contient des caracteres avec des valeurs trop grandes pour le module n")
    ELSE LET message_nums == plaintext
             encrypted_nums == [i \in 1..Len(message_nums) |->
                                  pow(message_nums[i], public_key.e, public_key.n)]
             encrypted_str == join([i \in 1..Len(encrypted_nums) |-> str(encrypted_nums[i])])
         IN  Return(b64encode(encrypted_str))

MaxCodePoint == 1114111

\* the text appended for one decrypted number
decrypted_char(num) ==
    IF 0 <= num /\ num <= MaxCodePoint THEN <<num>>
    ELSE <<91>> \o str(num) \o <<93>>

RECURSIVE concat(_)
concat(ss) == IF Len(ss) = 0 THEN <<>> ELSE Head(ss) \o concat(Tail(ss))

\* decrypt_rsa(ciphertext, private_key): every exception is raised again as
\* ValueError("Echec du dechiffrement")
decrypt_rsa(ciphertext, private_key) ==
    LET decoded_bytes == b64decode(ciphertext)
        decoded_str == IF decoded_bytes.kind = "return"
                       THEN utf8_decode(decoded_bytes.val, <<>>)
                       ELSE decoded_bytes
    IN  IF decoded_str.kind # "return" THEN Raise("Echec du dechiffrement")
        ELSE LET pieces == split(decoded_str.val, <<>>)
                 parsed == [i \in 1..Len(pieces) |-> int(pieces[i])]
             IN  IF \E i \in 1..Len(parsed) : parsed[i].kind # "return"
                 THEN Raise("Echec du dechiffrement")
                 ELSE LET decrypted_nums == [i \in 1..Len(parsed) |->
                                 pow(parsed[i].val, private_key.d, private_key.n)]
                      IN  Return(concat([i \in 1..Len(decrypted_nums) |->
                                            decrypted_char(decrypted_nums[i])]))

\* the plaintexts explored: texts of at most MaxMsgLen characters of RSAChars
MaxMsgLen == 2
RSAChars == {0, 65, 1114111}
RSAPlaintexts == UNION {[1..len -> RSAChars] : len \in 0..MaxMsgLen}

\* main(): public_key, private_key = generate_rsa_keys() (start-up, choice 3)
rsa_Generate ==
    /\ prog = "rsa"
    /\ out.op = "menu"
    /\ \E g \in generate_rsa_keys :
          /\ keys' = IF g.d.kind = "return"
                     THEN [e |-> g.e, n |-> g.n, d |-> g.d.val] ELSE keys
          /\ out' = [op |-> "generate_rsa_keys", p |-> g.p, q |-> g.q,
                     phi |-> g.phi, e |-> g.e, res |-> g.d]
    /\ UNCHANGED prog

\* encrypt_rsa(plaintext, public_key)
rsa_Encrypt ==
    /\ prog = "rsa"
    /\ out.op = "menu"
    /\ keys # NoKeys
    /\ \E plaintext \in RSAPlaintexts :
          out' = [op |-> "encrypt", plaintext |-> plaintext, key |-> keys,
                  res |-> encrypt_rsa(plaintext, [e |-> keys.e, n |-> keys.n])]
    /\ UNCHANGED <<prog, keys>>

\* decrypt_rsa(ciphertext, private_key) on the ciphertext just produced
rsa_Decrypt ==
    /\ prog = "rsa"
    /\ keys # NoKeys
    /\ out.op = "encrypt" /\ out.res.kind = "return"
    /\ out' = [op |-> "decrypt", plaintext |-> out.plaintext, key |-> out.key,
               ciphertext |-> out.res.val,
               res |-> decrypt_rsa(out.res.val, [d |-> keys.d, n |-> keys.n])]
    /\ UNCHANGED <<prog, keys>>

\* the key pairs generate_rsa_keys() can return
rsa_generated_keys ==
    {[e |-> g.e, n |-> g.n, d |-> g.d.val] :
        g \in {g \in generate_rsa_keys : g.d.kind = "return"}}

\* the ciphertexts of the explored plaintexts under the generated key pairs,
\* each with the key pair that produced it; main() cancels the operation on
\* an empty message
rsa_produced_ciphertexts ==
    {pc \in {[producer |-> k,
              res |-> encrypt_rsa(plaintext, [e |-> k.e, n |-> k.n])] :
                 k \in rsa_generated_keys,
                 plaintext \in RSAPlaintexts \ {<<>>}} :
        pc.res.kind = "return"}

\* main(), choice 2: decrypt_rsa on a ciphertext typed in, one that another
\* key pair produced
rsa_DecryptEntered ==
    /\ prog = "rsa"
    /\ out.op = "menu"
    /\ keys # NoKeys
    /\ \E pc \in rsa_produced_ciphertexts :
          /\ pc.producer # keys
          /\ out' = [op |-> "decrypt_entered", producer |-> pc.producer,
                     ciphertext |-> pc.res.val,
                     res |-> decrypt_rsa(pc.res.val,
                                         [d |-> keys.d, n |-> keys.n])]
    /\ UNCHANGED <<prog, keys>>

\* other texts typed at choice 2, none of them the output of encrypt_rsa:
\* the Base64 of texts that int() reads leniently, and Base64 typed with
\* characters that b64decode skips or without its padding
rsa_TypedCiphertexts ==
    {
     <<73, 68, 85, 61>>,  \* IDU=: ' 5'
     <<75, 122, 85, 61>>,  \* KzU=: '+5'
     <<76, 84, 85, 61>>,  \* LTU=: '-5'
     <<77, 86, 56, 119>>,  \* MV8w: '1_0'
     <<50, 97, 77, 61>>,  \* 2aM=: the UTF-8 of U+0663
     <<78, 81, 32, 61, 61>>,  \* NQ ==: '5' with a space typed inside
     <<78, 81, 61, 61, 78, 81, 61, 61>>,  \* NQ==NQ==: '5' typed twice
     <<78, 81>>,  \* NQ: '5' without its padding
     <<47, 119, 61, 61>>   \* /w==: the byte 255
    }

\* main(), choice 2: decrypt_rsa on such a text
rsa_DecryptTyped ==
    /\ prog = "rsa"
    /\ out.op = "menu"
    /\ keys # NoKeys
    /\ \E ciphertext \in rsa_TypedCiphertexts :
          out' = [op |-> "decrypt_typed", ciphertext |-> ciphertext,
                  key |-> keys,
                  res |-> decrypt_rsa(ciphertext, [d |-> keys.d, n |-> keys.n])]
    /\ UNCHANGED <<prog, keys>>

\* the e, n and d typed in
rsa_EnteredExponents == {1, 3, 7}
rsa_EnteredModuli == {1, 15, 33}

\* main(), choice 4: the keys typed in replace the keys held unless
\* e <= 1 or n <= 1 or d <= 1
rsa_Enter ==
    /\ prog = "rsa"
    /\ out.op = "menu"
    /\ keys # NoKeys
    /\ \E e \in rsa_EnteredExponents, n \in rsa_EnteredModuli,
          d \in rsa_EnteredExponents :
          LET res == IF e <= 1 \/ n <= 1 \/ d <= 1 THEN ReturnNone
                     ELSE Return([e |-> e, n |-> n, d |-> d])
          IN  /\ keys' = IF res.kind = "return" THEN res.val ELSE keys
              /\ out' = [op |-> "enter_keys", e |-> e, n |-> n, d |-> d,
                         held |-> keys, res |-> res]
    /\ UNCHANGED prog

(***************************************************************************)
(* Signature/Elgamelsignature.py                                           *)
(***************************************************************************)
\* ElGamalSignature.is_prime(n, k) can return b
EGsig_is_prime(n, k, b) ==
    IF n <= 1 \/ n = 4 THEN ~b
    ELSE IF n <= 3 THEN b
    ELSE LET rd == mr_split(n - 1, 0)
         IN  mr_rounds(n, rd[2], rd[1], k, b)

\* the values ElGamalSignature.generate_prime(min_val, max_val) can return
EGsig_generate_prime(min_val, max_val) ==
    {p \in {IF c % 2 = 0 THEN c + 1 ELSE c : c \in min_val..max_val} :
        EGsig_is_prime(p, MRRounds, TRUE)}

\* for g in range(g0, p): the first g that passes the two tests, else 2
RECURSIVE EGsig_scan(_, _)
EGsig_scan(p, g) ==
    IF g >= p THEN 2
    ELSE IF pow(g, (p - 1) \div 2, p) # 1 /\ pow(g, p - 1, p) = 1 THEN g
    ELSE EGsig_scan(p, g + 1)

EGsig_find_generator(p) == IF p = 2 THEN 1 ELSE EGsig_scan(p, 2)

\* the return statement find_generator(p) leaves by: the special case p == 2,
\* the return inside the scan, or the fallback after it
RECURSIVE EGsig_scan_exit(_, _)
EGsig_scan_exit(p, g) ==
    IF g >= p THEN "fallback"
    ELSE IF pow(g, (p - 1) \div 2, p) # 1 /\ pow(g, p - 1, p) = 1 THEN "scan"
    ELSE EGsig_scan_exit(p, g + 1)

EGsig_find_generator_exit(p) ==
    IF p = 2 THEN "special" ELSE EGsig_scan_exit(p, 2)

RECURSIVE EGsig_gcd(_, _)
EGsig_gcd(a, b) == IF b # 0 THEN EGsig_gcd(b, a % b) ELSE a

RECURSIVE EGsig_extended_gcd(_, _)
EGsig_extended_gcd(a, b) ==
    IF a = 0 THEN <<b, 0, 1>>
    ELSE LET t == EGsig_extended_gcd(b % a, a)
         IN  <<t[1], t[3] - (b \div a) * t[2], t[2]>>

EGsig_mod_inverse(a, m) ==
    LET t == EGsig_extended_gcd(a, m)
    IN  IF t[1] # 1 THEN Raise("Modular inverse does not exist")
        ELSE Return(((t[2] % m) + m) % m)

\* generate_keypair after generate_prime returned p: what it can return or
\* raise; random.randint(2, p - 2) raises ValueError on an empty range
EGsig_keypair_of(p) ==
    LET g == EGsig_find_generator(p)
    IN  IF p - 2 < 2 THEN {Raise("empty range for randrange()")}
        ELSE {Return([p |-> p, g |-> g, y |-> pow(g, x, p), x |-> x]) :
                 x \in 2..(p - 2)}

\* generate_keypair(min_prime, max_prime): what it can return or raise
EGsig_generate_keypair(min_prime, max_prime) ==
    UNION {EGsig_keypair_of(p) :
              p \in EGsig_generate_prime(min_prime, max_prime)}

\* the k that the loop of sign can leave with
EGsig_nonces(p) == {k \in 2..(p - 2) : EGsig_gcd(k, p - 1) = 1}

\* sign(message, keys) on the digest D = hash_message(message), with the
\* nonce k the loop selected
EGsig_sign(D, ks, k) ==
    LET p == ks.p
        h == D % p
        r == pow(ks.g, k, p)
        k_inv == EGsig_mod_inverse(k, p - 1)
    IN  IF k_inv.kind # "return" THEN k_inv
        ELSE Return(<<r, ((h - ks.x * r) * k_inv.val) % (p - 1)>>)

\* a faulty variant of verify, whose range test lacks `r >= p`; C19 has to
\* tell it from the code's
EGsig_verify_unbounded_r(D, signature, ks) ==
    LET p == ks.p
        r == signature[1]
        s == signature[2]
    IN  IF r <= 0 \/ s <= 0 \/ s >= p - 1 THEN FALSE
        ELSE LET h == D % p
                 left == pow(ks.g, h, p)
                 right == (pow(ks.y, r, p) * pow(r, s, p)) % p
             IN  left = right

\* verify(message, signature, keys) on the digest D
EGsig_verify(D, signature, ks) ==
    LET p == ks.p
        r == signature[1]
        s == signature[2]
    IN  IF r <= 0 \/ r >= p \/ s <= 0 \/ s >= p - 1 THEN FALSE
        ELSE LET h == D % p
                 left == pow(ks.g, h, p)
                 right == (pow(ks.y, r, p) * pow(r, s, p)) % p
             IN  left = right

\* create_keys_from_components(p, g, x, y); an absent x or y is <<>>, a given
\* one <<value>>; prime is what is_prime(p) returned, xr the x drawn by
\* random.randint(1, p - 2) in the branches that draw one
EGsig_create_keys_from_components(p, g, x, y, prime, xr) ==
    IF ~prime THEN ReturnNone
    ELSE IF g <= 1 \/ g >= p THEN ReturnNone
    ELSE IF x # <<>> /\ y # <<>>
    THEN LET calculated_y == pow_signed(g, x[1], p)
         IN  IF calculated_y.kind # "return" THEN ReturnNone
             ELSE IF calculated_y.val # y[1] THEN ReturnNone
             ELSE Return([p |-> p, g |-> g, x |-> x[1], y |-> y[1]])
    ELSE IF x # <<>>
    THEN IF x[1] <= 0 \/ x[1] >= p THEN ReturnNone
         ELSE Return([p |-> p, g |-> g, x |-> x[1], y |-> pow(g, x[1], p)])
    ELSE IF y # <<>>
    THEN IF y[1] <= 0 \/ y[1] >= p THEN ReturnNone
         ELSE IF p - 2 < 1 THEN ReturnNone
         ELSE Return([p |-> p, g |-> g, x |-> xr, y |-> pow(g, xr, p)])
    ELSE IF p - 2 < 1 THEN ReturnNone
         ELSE Return([p |-> p, g |-> g, x |-> xr, y |-> pow(g, xr, p)])

\* which of the four branches the arguments select
Branch(x, y) ==
    IF x # <<>> /\ y # <<>> THEN "both"
    ELSE IF x # <<>> THEN "x" ELSE IF y # <<>> THEN "y" ELSE "neither"

\* the (min_prime, max_prime) the user enters
EGsig_Ranges == {<<2, 13>>, <<40, 41>>}

EGsig_generated ==
    UNION {EGsig_generate_keypair(mm[1], mm[2]) : mm \in EGsig_Ranges}

\* the components the user enters: p in 2..MaxCreateP, g and y in 0..p, x in
\* -1..p
MaxCreateP == 7

\* the s with bit i flipped
FlipBit(s, i) == IF (s \div Pow2(i)) % 2 = 1 THEN s - Pow2(i) ELSE s + Pow2(i)
\* the bits of s that are explored
FlipBits == 6

\* main(): keys = generate_keypair(min_prime, max_prime); an exception ends
\* the script
EGsig_Generate ==
    /\ prog = "Elgamelsignature"
    /\ out.op = "menu"
    /\ \E g \in EGsig_generated :
          /\ keys' = IF g.kind = "return" THEN g.val ELSE keys
          /\ out' = [op |-> "generate_keypair", res |-> g]
    /\ UNCHANGED prog

\* main(), start-up choice 3: keys = create_keys_from_components(p, g, x, y);
\* None ends the script
EGsig_Create ==
    /\ prog = "Elgamelsignature"
    /\ out.op = "menu"
    /\ keys = NoKeys
    /\ \E p \in 2..MaxCreateP :
       \E g \in 0..p, x \in Optional((-1)..p), y \in Optional(0..p) :
       \E prime \in {b \in BOOLEAN : EGsig_is_prime(p, MRRounds, b)} :
       \E xr \in IF p - 2 < 1 THEN {0} ELSE 1..(p - 2) :
          LET res == EGsig_create_keys_from_components(p, g, x, y, prime, xr)
          IN  /\ keys' = IF res.kind = "return" THEN res.val ELSE keys
              /\ out' = [op |-> "create_keys_from_components",
                         branch |-> Branch(x, y), p |-> p, g |-> g, x |-> x,
                         y |-> y, res |-> res]
    /\ UNCHANGED prog

\* load_keys_from_files(private_key_file, public_key_file) on the contents
\* of the two files, <<>> for a file that cannot be read or lacks a field:
\* the p and g of the two files must agree, nothing else is tested; every
\* exception is caught and None returned
EGsig_load_keys_from_files(private_key_data, public_key_data) ==
    IF private_key_data = <<>> \/ public_key_data = <<>> THEN ReturnNone
    ELSE IF \/ private_key_data[1].p # public_key_data[1].p
            \/ private_key_data[1].g # public_key_data[1].g
    THEN ReturnNone
    ELSE Return([p |-> private_key_data[1].p, g |-> private_key_data[1].g,
                 x |-> private_key_data[1].x, y |-> public_key_data[1].y])

\* main(), start-up choice 2: keys = load_keys_from_files(...); None ends the
\* script; the contents of the two key files are drawn from small sets
EGsig_Load ==
    /\ prog = "Elgamelsignature"
    /\ out.op = "menu"
    /\ keys = NoKeys
    /\ \E private_key_data \in Optional([p : {5, 6, 7}, g : {2, 3, 5}, x : {2}]) :
       \E public_key_data \in
             Optional([p : {5, 6, 7}, g : {2, 3, 5}, y : {1, 2, 4, 5}]) :
          LET res == EGsig_load_keys_from_files(private_key_data,
                                              public_key_data)
          IN  /\ keys' = IF res.kind = "return" THEN res.val ELSE keys
              /\ out' = [op |-> "load_keys_from_files",
                         private_key_data |-> private_key_data,
                         public_key_data |-> public_key_data, res |-> res]
    /\ UNCHANGED prog

\* sign(message, keys): random.randint(2, p - 2) raises ValueError on an
\* empty range
EGsig_Sign ==
    /\ prog = "Elgamelsignature"
    /\ out.op = "menu"
    /\ keys # NoKeys
    /\ \E D \in 0..Min(keys.p + 1, MaxDigest) :
          IF keys.p - 2 < 2
          THEN out' = [op |-> "sign", D |-> D, k |-> 0, key |-> keys,
                       res |-> Raise("empty range for randrange()")]
          ELSE \E k \in EGsig_nonces(keys.p) :
                  out' = [op |-> "sign", D |-> D, k |-> k, key |-> keys,
                          res |-> EGsig_sign(D, keys, k)]
    /\ UNCHANGED <<prog, keys>>

\* verify(message, signature, keys) on the signature just produced, or on
\* that signature with one bit of s flipped (flip = -1: none)
EGsig_Verify ==
    /\ prog = "Elgamelsignature"
    /\ keys # NoKeys
    /\ out.op = "sign" /\ out.res.kind = "return"
    /\ \E flip \in (-1)..(FlipBits - 1) :
          LET r == out.res.val[1]
              s == out.res.val[2]
              s2 == IF flip < 0 THEN s ELSE FlipBit(s, flip)
          IN  out' = [op |-> "verify", D |-> out.D, signed |-> out.res.val,
                      signature |-> <<r, s2>>, flip |-> flip,
                      res |-> EGsig_verify(out.D, <<r, s2>>, keys)]
    /\ UNCHANGED <<prog, keys>>

\* main(), choice 2: verify(message, (r, s), keys) on the r and s typed in;
\* the values around the ends of the two ranges are explored
EnteredDigests == 0..1
EnteredR(p) == {-1, 0, 1, 2, p - 1, p, p + 1}
EnteredS(p) == {-1, 0, 1, 2, p - 2, p - 1, p}

EGsig_VerifyEntered ==
    /\ prog = "Elgamelsignature"
    /\ out.op = "menu"
    /\ keys # NoKeys
    /\ \E D \in EnteredDigests, r \in EnteredR(keys.p), s \in EnteredS(keys.p) :
          out' = [op |-> "verify_entered", D |-> D, signature |-> <<r, s>>,
                  res |-> EGsig_verify(D, <<r, s>>, keys)]
    /\ UNCHANGED <<prog, keys>>

\* the signatures of the digests of EnteredDigests under the generated key
\* pairs with a nonce k <= MaxProducerNonce, each with the digest and the key
\* pair that produced it
MaxProducerNonce == 5

EGsig_produced_signatures ==
    {ps \in UNION {
             {[producer |-> g.val, D |-> D, res |-> EGsig_sign(D, g.val, k)] :
                 D \in EnteredDigests,
                 k \in {k \in EGsig_nonces(g.val.p) : k <= MaxProducerNonce}}
             : g \in {g \in EGsig_generated :
                         g.kind = "return" /\ g.val.p - 2 >= 2}} :
        ps.res.kind = "return"}

\* main(), choice 2: verify on a message and a signature typed in, a
\* signature that another key pair produced for that message
EGsig_VerifyOther ==
    /\ prog = "Elgamelsignature"
    /\ out.op = "menu"
    /\ keys # NoKeys
    /\ \E ps \in EGsig_produced_signatures :
          /\ ps.producer # keys
          /\ out' = [op |-> "verify_other", producer |-> ps.producer,
                     D |-> ps.D, signature |-> ps.res.val,
                     res |-> EGsig_verify(ps.D, ps.res.val, keys)]
    /\ UNCHANGED <<prog, keys>>

\* ElGamalSignature.find_generator(p), called on its own
MaxGeneratorP == 60

EGsig_FindGenerator ==
    /\ prog = "Elgamelsignature"
    /\ out.op = "menu"
    /\ \E p \in 2..MaxGeneratorP :
          out' = [op |-> "find_generator", p |-> p,
                  exit |-> EGsig_find_generator_exit(p),
                  res |-> Return(EGsig_find_generator(p))]
    /\ UNCHANGED <<prog, keys>>

(***************************************************************************)
(* The scripts.                                                            *)
(***************************************************************************)
(***************************************************************************)
(* chiffrement asymetrique/EL GAMAL/gamel.py                               *)
(***************************************************************************)
\* ElGamalCrypto.is_prime(n, k) can return b
gamel_is_prime(n, k, b) ==
    IF n < 2 THEN ~b
    ELSE IF n = 2 \/ n = 3 THEN b
    ELSE IF n % 2 = 0 THEN ~b
    ELSE LET rd == mr_split(n - 1, 0)
         IN  mr_rounds(n, rd[2], rd[1], k, b)

\* the values ElGamalCrypto.generate_prime(min_val, max_val) can return
gamel_generate_prime(min_val, max_val) ==
    {p \in {IF c % 2 = 0 THEN c + 1 ELSE c : c \in min_val..max_val} :
        gamel_is_prime(p, MRRounds, TRUE)}

\* while exponent > 0: ...
RECURSIVE mod_pow_loop(_, _, _, _)
mod_pow_loop(result, base, exponent, modulus) ==
    IF exponent > 0
    THEN mod_pow_loop(IF exponent % 2 = 1 THEN (result * base) % modulus
                                          ELSE result,
                      (base * base) % modulus, exponent \div 2, modulus)
    ELSE result

\* a faulty variant of mod_pow, without `if modulus == 1: return 0`; C18 has
\* to tell it from the code's
mod_pow_unchecked(base, exponent, modulus) ==
    mod_pow_loop(1, base % modulus, exponent, modulus)

mod_pow(base, exponent, modulus) ==
    IF modulus = 1 THEN 0 ELSE mod_pow_loop(1, base % modulus, exponent, modulus)

RECURSIVE gamel_extended_gcd(_, _)
gamel_extended_gcd(a, b) ==
    IF a = 0 THEN <<b, 0, 1>>
    ELSE LET t == gamel_extended_gcd(b % a, a)
         IN  <<t[1], t[3] - (b \div a) * t[2], t[2]>>

\* mod_inverse(a, m): None when gcd(a, m) # 1
gamel_mod_inverse(a, m) ==
    LET t == gamel_extended_gcd(a, m)
    IN  IF t[1] # 1 THEN ReturnNone ELSE Return(((t[2] % m) + m) % m)

\* a faulty variant of the loop of prime_factors, without the final
\* `if n > 1: factors.append(n)`; C7 has to tell it from the code's
RECURSIVE prime_factors_loop_no_tail(_, _, _)
prime_factors_loop_no_tail(n, i, factors) ==
    IF i * i <= n
    THEN IF n % i = 0
         THEN prime_factors_loop_no_tail(n \div i, i, factors \cup {i})
         ELSE prime_factors_loop_no_tail(n, i + 1, factors)
    ELSE factors

\* prime_factors(n): the loop from i with the factors found so far
RECURSIVE prime_factors_loop(_, _, _)
prime_factors_loop(n, i, factors) ==
    IF i * i <= n
    THEN IF n % i = 0 THEN prime_factors_loop(n \div i, i, factors \cup {i})
         ELSE prime_factors_loop(n, i + 1, factors)
    ELSE IF n > 1 THEN factors \cup {n} ELSE factors

\* list(set(factors)), as a set
prime_factors(n) == prime_factors_loop(n, 2, {})

\* for g in range(g0, p): the first g no factor rules out, else 2
RECURSIVE gamel_scan(_, _, _)
gamel_scan(p, factors, g) ==
    IF g >= p THEN 2
    ELSE IF \A factor \in factors : mod_pow(g, (p - 1) \div factor, p) # 1
    THEN g
    ELSE gamel_scan(p, factors, g + 1)

gamel_find_generator(p) == gamel_scan(p, prime_factors(p - 1), 2)

\* the return statement find_generator(p) leaves by: the return inside the
\* scan, or the fallback after it
RECURSIVE gamel_scan_exit(_, _, _)
gamel_scan_exit(p, factors, g) ==
    IF g >= p THEN "fallback"
    ELSE IF \A factor \in factors : mod_pow(g, (p - 1) \div factor, p) # 1
    THEN "scan"
    ELSE gamel_scan_exit(p, factors, g + 1)

gamel_find_generator_exit(p) == gamel_scan_exit(p, prime_factors(p - 1), 2)

\* generate_elgamal_keys after generate_prime returned p: what it can return
\* the x of random.randint(1, p - 2) that are explored: every one up to p = 25
MaxPrivateDraw == 23

\* or raise
gamel_keys_of(p) ==
    LET g == gamel_find_generator(p)
    IN  IF p - 2 < 1 THEN {Raise("empty range for randrange()")}
        ELSE {Return([p |-> p, g |-> g, y |-> mod_pow(g, x, p), x |-> x]) :
                 x \in 1..Min(p - 2, MaxPrivateDraw)}

\* generate_elgamal_keys(min_prime, max_prime): what it can return or raise
generate_elgamal_keys(min_prime, max_prime) ==
    UNION {gamel_keys_of(p) :
              p \in gamel_generate_prime(min_prime, max_prime)}

\* a faulty variant of the encryption loop, which hands back what it has
\* encrypted so far when a unit is too large; C27 has to tell it from the
\* code's
encrypt_loop_partial(message_numbers, ks, i, ciphertext, key) ==
    LET bad == {j \in 1..Len(message_numbers) : message_numbers[j] >= key.p}
        upto == IF bad = {} THEN Len(message_numbers)
                ELSE (CHOOSE j \in bad : \A l \in bad : j <= l) - 1
    IN  Return([j \in 1..upto |->
                  <<mod_pow(key.g, ks[j], key.p),
                    (message_numbers[j] * mod_pow(key.y, ks[j], key.p)) % key.p>>])

\* the loop of encrypt_elgamal from unit i, ks[i] the k drawn for unit i
RECURSIVE encrypt_loop(_, _, _, _, _)
encrypt_loop(message_numbers, ks, i, ciphertext, key) ==
    IF i > Len(message_numbers) THEN Return(ciphertext)
    ELSE LET m == message_numbers[i]
             p == key.p
         IN  IF m >= p THEN Raise("Caractere trop grand pour p")
             ELSE IF p - 2 < 1 THEN Raise("empty range for randrange()")
             ELSE encrypt_loop(message_numbers, ks, i + 1,
                      Append(ciphertext,
                             <<mod_pow(key.g, ks[i], p),
                               (m * mod_pow(key.y, ks[i], p)) % p>>), key)

\* text_to_numbers: the code points of the text
text_to_numbers(text) == [i \in 1..Len(text) |-> text[i]]

\* numbers_to_text: chr raises ValueError outside range(0x110000)
numbers_to_text(numbers) ==
    IF \E i \in 1..Len(numbers) : numbers[i] < 0 \/ numbers[i] > MaxCodePoint
    THEN Raise("chr() arg not in range(0x110000)")
    ELSE Return([i \in 1..Len(numbers) |-> numbers[i]])

encrypt_elgamal(message, key, ks) ==
    encrypt_loop(text_to_numbers(message), ks, 1, <<>>, key)

RECURSIVE decrypt_loop(_, _, _, _)
decrypt_loop(ciphertext, i, decrypted_numbers, key) ==
    IF i > Len(ciphertext) THEN numbers_to_text(decrypted_numbers)
    ELSE LET s == mod_pow(ciphertext[i][1], key.x, key.p)
             s_inv == gamel_mod_inverse(s, key.p)
         IN  IF s_inv.kind # "return"
             THEN Raise("Impossible de calculer l'inverse modulaire")
             ELSE decrypt_loop(ciphertext, i + 1,
                      Append(decrypted_numbers,
                             (ciphertext[i][2] * s_inv.val) % key.p), key)

decrypt_elgamal(ciphertext, key) == decrypt_loop(ciphertext, 1, <<>>, key)

\* create_keys_from_components(p, g, x, y), arguments as in the signature
\* script; every exception is caught and None returned
gamel_create_keys_from_components(p, g, x, y, prime, xr) ==
    IF ~prime THEN ReturnNone
    ELSE IF g <= 1 \/ g >= p THEN ReturnNone
    ELSE IF x # <<>> /\ y # <<>>
    THEN IF mod_pow(g, x[1], p) # y[1] THEN ReturnNone
         ELSE Return([p |-> p, g |-> g, x |-> x[1], y |-> y[1]])
    ELSE IF x # <<>>
    THEN IF x[1] <= 0 \/ x[1] >= p THEN ReturnNone
         ELSE Return([p |-> p, g |-> g, x |-> x[1], y |-> mod_pow(g, x[1], p)])
    ELSE IF y # <<>>
    THEN IF y[1] <= 0 \/ y[1] >= p THEN ReturnNone
         ELSE IF p - 2 < 1 THEN ReturnNone
         ELSE Return([p |-> p, g |-> g, x |-> xr, y |-> mod_pow(g, xr, p)])
    ELSE IF p - 2 < 1 THEN ReturnNone
         ELSE Return([p |-> p, g |-> g, x |-> xr, y |-> mod_pow(g, xr, p)])

\* the (min_prime, max_prime) the user enters; 25 is the smallest odd
\* composite that is_prime can accept, and 561 = 3 * 11 * 17 the smallest one
\* it can accept for which find_generator returns a g that shares a factor
\* with p
gamel_Ranges == {<<2, 11>>, <<24, 25>>, <<560, 561>>}

gamel_generated ==
    UNION {generate_elgamal_keys(mm[1], mm[2]) : mm \in gamel_Ranges}

\* the messages and the k of random.randint(1, p - 2) that are explored
GamelChars == {0, 5, 65}
MaxNonce == 9

gamel_Plaintexts ==
    UNION {[1..len -> GamelChars] : len \in 0..MaxMsgLen}

\* main(): keys = generate_elgamal_keys(min_prime, max_prime)
gamel_Generate ==
    /\ prog = "gamel"
    /\ out.op = "menu"
    /\ \E g \in gamel_generated :
          /\ keys' = IF g.kind = "return" THEN g.val ELSE keys
          /\ out' = [op |-> "generate_elgamal_keys", res |-> g]
    /\ UNCHANGED prog

\* main(), start-up choice 3: keys = create_keys_from_components(p, g, x, y);
\* None ends the script
gamel_Create ==
    /\ prog = "gamel"
    /\ out.op = "menu"
    /\ keys = NoKeys
    /\ \E p \in 2..MaxCreateP :
       \E g \in 0..p, x \in Optional((-1)..p), y \in Optional(0..p) :
       \E prime \in {b \in BOOLEAN : gamel_is_prime(p, MRRounds, b)} :
       \E xr \in IF p - 2 < 1 THEN {0} ELSE 1..(p - 2) :
          LET res == gamel_create_keys_from_components(p, g, x, y, prime, xr)
          IN  /\ keys' = IF res.kind = "return" THEN res.val ELSE keys
              /\ out' = [op |-> "create_keys_from_components",
                         branch |-> Branch(x, y), p |-> p, g |-> g, x |-> x,
                         y |-> y, res |-> res]
    /\ UNCHANGED prog

\* load_keys_from_files(private_key_file, public_key_file) on the contents
\* of the two files, <<>> for a file that cannot be read or lacks a field:
\* the p and g of the two files must agree, nothing else is tested; every
\* exception is caught and None returned
gamel_load_keys_from_files(private_key_data, public_key_data) ==
    IF private_key_data = <<>> \/ public_key_data = <<>> THEN ReturnNone
    ELSE IF \/ private_key_data[1].p # public_key_data[1].p
            \/ private_key_data[1].g # public_key_data[1].g
    THEN ReturnNone
    ELSE Return([p |-> private_key_data[1].p, g |-> private_key_data[1].g,
                 x |-> private_key_data[1].x, y |-> public_key_data[1].y])

\* main(), start-up choice 2: keys = load_keys_from_files(...); None ends the
\* script; the contents of the two key files are drawn from small sets
gamel_Load ==
    /\ prog = "gamel"
    /\ out.op = "menu"
    /\ keys = NoKeys
    /\ \E private_key_data \in Optional([p : {5, 6, 7}, g : {2, 3, 5}, x : {2}]) :
       \E public_key_data \in
             Optional([p : {5, 6, 7}, g : {2, 3, 5}, y : {1, 2, 4, 5}]) :
          LET res == gamel_load_keys_from_files(private_key_data,
                                              public_key_data)
          IN  /\ keys' = IF res.kind = "return" THEN res.val ELSE keys
              /\ out' = [op |-> "load_keys_from_files",
                         private_key_data |-> private_key_data,
                         public_key_data |-> public_key_data, res |-> res]
    /\ UNCHANGED prog

\* encrypt_elgamal(plaintext, keys)
gamel_Encrypt ==
    /\ prog = "gamel"
    /\ out.op = "menu"
    /\ keys # NoKeys
    /\ \E plaintext \in gamel_Plaintexts :
       \E ks \in [1..Len(plaintext) -> 1..Min(Max(keys.p - 2, 1), MaxNonce)] :
          out' = [op |-> "encrypt", plaintext |-> plaintext, key |-> keys,
                  res |-> encrypt_elgamal(plaintext, keys, ks)]
    /\ UNCHANGED <<prog, keys>>

\* decrypt_elgamal(ciphertext, keys) on the ciphertext just produced
gamel_Decrypt ==
    /\ prog = "gamel"
    /\ keys # NoKeys
    /\ out.op = "encrypt" /\ out.res.kind = "return"
    /\ out' = [op |-> "decrypt", plaintext |-> out.plaintext, key |-> keys,
               ciphertext |-> out.res.val,
               res |-> decrypt_elgamal(out.res.val, keys)]
    /\ UNCHANGED <<prog, keys>>

\* the ciphertexts of the one-character messages under the generated key
\* pairs, each with the key pair that produced it
gamel_produced_ciphertexts ==
    {pc \in UNION {
             {[producer |-> g.val,
               res |-> encrypt_elgamal(<<c>>, g.val, <<k>>)] :
                 c \in GamelChars,
                 k \in 1..Min(Max(g.val.p - 2, 1), MaxNonce)}
             : g \in {g \in gamel_generated : g.kind = "return"}} :
        pc.res.kind = "return"}

\* main(), choice 2: decrypt_elgamal on a ciphertext typed in, one that
\* another key pair produced
gamel_DecryptEntered ==
    /\ prog = "gamel"
    /\ out.op = "menu"
    /\ keys # NoKeys
    /\ \E pc \in gamel_produced_ciphertexts :
          /\ pc.producer # keys
          /\ out' = [op |-> "decrypt_entered", producer |-> pc.producer,
                     ciphertext |-> pc.res.val,
                     res |-> decrypt_elgamal(pc.res.val, keys)]
    /\ UNCHANGED <<prog, keys>>

\* ElGamalCrypto.find_generator(p), called on its own
gamel_FindGenerator ==
    /\ prog = "gamel"
    /\ out.op = "menu"
    /\ \E p \in 2..MaxGeneratorP :
          out' = [op |-> "find_generator", p |-> p,
                  exit |-> gamel_find_generator_exit(p),
                  res |-> Return(gamel_find_generator(p))]
    /\ UNCHANGED <<prog, keys>>

(***************************************************************************)
(* The functions of the scripts called on their own, before any key is     *)
(* held.                                                                   *)
(***************************************************************************)
\* is_prime(n, k) of RSAsignature.py with the witnesses ws, k = Len(ws)
RSAsig_is_prime_run(n, ws) ==
    IF n <= 1 \/ n = 4 THEN [res |-> FALSE, rounds |-> 0]
    ELSE IF n <= 3 THEN [res |-> TRUE, rounds |-> 0]
    ELSE LET rd == mr_split(n - 1, 0)
         IN  mr_run(n, rd[2], rd[1], ws, 1)

\* ElGamalSignature.is_prime(n, k) with the witnesses ws
EGsig_is_prime_run(n, ws) ==
    IF n <= 1 \/ n = 4 THEN [res |-> FALSE, rounds |-> 0]
    ELSE IF n <= 3 THEN [res |-> TRUE, rounds |-> 0]
    ELSE LET rd == mr_split(n - 1, 0)
         IN  mr_run(n, rd[2], rd[1], ws, 1)

\* ElGamalCrypto.is_prime(n, k) with the witnesses ws
gamel_is_prime_run(n, ws) ==
    IF n < 2 THEN [res |-> FALSE, rounds |-> 0]
    ELSE IF n = 2 \/ n = 3 THEN [res |-> TRUE, rounds |-> 0]
    ELSE IF n % 2 = 0 THEN [res |-> FALSE, rounds |-> 0]
    ELSE LET rd == mr_split(n - 1, 0)
         IN  mr_run(n, rd[2], rd[1], ws, 1)

\* the calls is_prime(n, k) explored: every n up to MaxOracleN with up to
\* MaxRounds rounds, and the known primes and composites with one round
MaxOracleN == 28
MaxRounds == 2
KnownNumbers == {97, 100, 561, 7919}

OracleCalls ==
    {<<n, k>> : n \in (-1)..MaxOracleN, k \in 0..MaxRounds}
        \cup {<<n, 1>> : n \in KnownNumbers}

\* random.randint(2, n - 2); no round is run when n < 5
Witnesses(n) == IF n < 5 THEN {2} ELSE 2..(n - 2)

RSAsig_IsPrime ==
    /\ prog = "RSAsignature"
    /\ out.op = "menu"
    /\ keys = NoKeys
    /\ \E c \in OracleCalls : \E ws \in [1..c[2] -> Witnesses(c[1])] :
          LET run == RSAsig_is_prime_run(c[1], ws)
          IN  out' = [op |-> "is_prime", n |-> c[1], k |-> c[2],
                      witnesses |-> SubSeq(ws, 1, run.rounds),
                      res |-> Return(run.res)]
    /\ UNCHANGED <<prog, keys>>

EGsig_IsPrime ==
    /\ prog = "Elgamelsignature"
    /\ out.op = "menu"
    /\ keys = NoKeys
    /\ \E c \in OracleCalls : \E ws \in [1..c[2] -> Witnesses(c[1])] :
          LET run == EGsig_is_prime_run(c[1], ws)
          IN  out' = [op |-> "is_prime", n |-> c[1], k |-> c[2],
                      witnesses |-> SubSeq(ws, 1, run.rounds),
                      res |-> Return(run.res)]
    /\ UNCHANGED <<prog, keys>>

gamel_IsPrime ==
    /\ prog = "gamel"
    /\ out.op = "menu"
    /\ keys = NoKeys
    /\ \E c \in OracleCalls : \E ws \in [1..c[2] -> Witnesses(c[1])] :
          LET run == gamel_is_prime_run(c[1], ws)
          IN  out' = [op |-> "is_prime", n |-> c[1], k |-> c[2],
                      witnesses |-> SubSeq(ws, 1, run.rounds),
                      res |-> Return(run.res)]
    /\ UNCHANGED <<prog, keys>>

\* the calls generate_prime(min_val, max_val) explored
MaxRangeEnd == 12

PrimeRanges ==
    {mm \in (0..MaxRangeEnd) \X (0..MaxRangeEnd) : mm[1] <= mm[2]}

EGsig_GeneratePrime ==
    /\ prog = "Elgamelsignature"
    /\ out.op = "menu"
    /\ keys = NoKeys
    /\ \E mm \in PrimeRanges : \E p \in EGsig_generate_prime(mm[1], mm[2]) :
          out' = [op |-> "generate_prime", min_val |-> mm[1],
                  max_val |-> mm[2], res |-> Return(p)]
    /\ UNCHANGED <<prog, keys>>

gamel_GeneratePrime ==
    /\ prog = "gamel"
    /\ out.op = "menu"
    /\ keys = NoKeys
    /\ \E mm \in PrimeRanges : \E p \in gamel_generate_prime(mm[1], mm[2]) :
          out' = [op |-> "generate_prime", min_val |-> mm[1],
                  max_val |-> mm[2], res |-> Return(p)]
    /\ UNCHANGED <<prog, keys>>

\* the calls mod_inverse(a, m) explored
MaxInverseArg == 13

InverseCalls == (0..MaxInverseArg) \X (1..MaxInverseArg)

RSAsig_ModInverse ==
    /\ prog = "RSAsignature"
    /\ out.op = "menu"
    /\ keys = NoKeys
    /\ \E am \in InverseCalls :
          out' = [op |-> "mod_inverse", a |-> am[1], m |-> am[2],
                  res |-> RSAsig_mod_inverse(am[1], am[2])]
    /\ UNCHANGED <<prog, keys>>

EGsig_ModInverse ==
    /\ prog = "Elgamelsignature"
    /\ out.op = "menu"
    /\ keys = NoKeys
    /\ \E am \in InverseCalls :
          out' = [op |-> "mod_inverse", a |-> am[1], m |-> am[2],
                  res |-> EGsig_mod_inverse(am[1], am[2])]
    /\ UNCHANGED <<prog, keys>>

gamel_ModInverse ==
    /\ prog = "gamel"
    /\ out.op = "menu"
    /\ keys = NoKeys
    /\ \E am \in InverseCalls :
          out' = [op |-> "mod_inverse", a |-> am[1], m |-> am[2],
                  res |-> gamel_mod_inverse(am[1], am[2])]
    /\ UNCHANGED <<prog, keys>>

rsa_ModInverse ==
    /\ prog = "rsa"
    /\ out.op = "menu"
    /\ keys = NoKeys
    /\ \E am \in InverseCalls :
          out' = [op |-> "mod_inverse", a |-> am[1], m |-> am[2],
                  res |-> mod_inverse(am[1], am[2])]
    /\ UNCHANGED <<prog, keys>>

\* the calls mod_pow(base, exponent, modulus) explored
MaxPowArg == 13

gamel_ModPow ==
    /\ prog = "gamel"
    /\ out.op = "menu"
    /\ keys = NoKeys
    /\ \E base \in 0..MaxPowArg, exponent \in 0..MaxPowArg,
          modulus \in 1..MaxPowArg :
          out' = [op |-> "mod_pow", base |-> base, exponent |-> exponent,
                  modulus |-> modulus,
                  res |-> Return(mod_pow(base, exponent, modulus))]
    /\ UNCHANGED <<prog, keys>>

(***************************************************************************)
(* The loop of main()                                                      *)
(***************************************************************************)
\* the calls main() makes outside a try block, and the None after which it
\* returns: the script has ended
Ended ==
    \/ /\ out.op \in {"generate_keypair", "generate_rsa_keys",
                      "generate_elgamal_keys"}
       /\ out.res.kind = "raise"
    \/ /\ prog \in {"Elgamelsignature", "gamel"}
       /\ out.op = "create_keys_from_components"
       /\ out.res.kind # "return"
    \/ /\ prog = "RSAsignature"
       /\ out.op = "create_keys_from_components"
       /\ out.held = NoKeys
       /\ out.res.kind # "return"
    \/ /\ out.op = "load_keys_from_files"
       /\ out.res.kind # "return"

\* the loop of main() comes back to its prompt; an ended script is run again
Menu ==
    /\ out.op # "menu"
    /\ out' = [op |-> "menu"]
    /\ keys' = IF Ended THEN NoKeys ELSE keys
    /\ UNCHANGED prog

Programs == {"RSAsignature", "Elgamelsignature", "gamel", "rsa"}

Init ==
    /\ prog \in Programs
    /\ keys = NoKeys
    /\ out = [op |-> "menu"]

Next ==
    \/ Menu
    \/ RSAsig_Generate
    \/ RSAsig_Sign
    \/ RSAsig_Verify
    \/ EGsig_Generate
    \/ EGsig_Create
    \/ EGsig_Sign
    \/ EGsig_Verify
    \/ EGsig_FindGenerator
    \/ gamel_Generate
    \/ gamel_Create
    \/ gamel_Encrypt
    \/ gamel_Decrypt
    \/ gamel_FindGenerator
    \/ rsa_Generate
    \/ rsa_Encrypt
    \/ rsa_Decrypt
    \/ RSAsig_IsPrime
    \/ EGsig_IsPrime
    \/ gamel_IsPrime
    \/ EGsig_GeneratePrime
    \/ gamel_GeneratePrime
    \/ RSAsig_ModInverse
    \/ EGsig_ModInverse
    \/ gamel_ModInverse
    \/ rsa_ModInverse
    \/ gamel_ModPow
    \/ EGsig_VerifyEntered
    \/ RSAsig_Create
    \/ RSAsig_Load
    \/ EGsig_Load
    \/ gamel_Load
    \/ rsa_Enter
    \/ rsa_DecryptEntered
    \/ rsa_DecryptTyped
    \/ EGsig_VerifyOther
    \/ gamel_DecryptEntered

Spec == Init /\ [][Next]_vars

(***************************************************************************)
(* Key generation of the two RSA scripts, one step per test of the loop    *)
(* that selects e.  out.pc is the position in generate_keypair /           *)
(* generate_rsa_keys.                                                      *)
(***************************************************************************)
\* p = generate_prime(bits // 2); q = generate_prime(bits // 2); e = 65537
RSAsig_DrawPrimes ==
    /\ prog = "RSAsignature"
    /\ out.pc = "start"
    /\ \E bits \in BitLengths :
       \E p \in RSAsig_generate_prime(bits \div 2) :
       \E q \in {q \in RSAsig_generate_prime(bits \div 2) :
                    p <= MaxModulus \div q} :
          out' = [pc |-> "choose_e", n |-> p * q, phi |-> (p - 1) * (q - 1),
                  e |-> RSAsig_PublicExponent]
    /\ UNCHANGED <<prog, keys>>

\* while gcd(e, phi) != 1: e = random.randrange(2, phi), one test of the
\* loop condition and, when it holds, one draw
RSAsig_ChooseE ==
    /\ prog = "RSAsignature"
    /\ out.pc = "choose_e"
    /\ IF RSAsig_gcd(out.e, out.phi) # 1
       THEN \E e \in 2..Min(out.phi - 1, MaxEDraw) : out' = [out EXCEPT !.e = e]
       ELSE out' = [out EXCEPT !.pc = "inverse"]
    /\ UNCHANGED <<prog, keys>>

\* d = mod_inverse(e, phi); return {"public": (e, n), "private": (d, n)}
RSAsig_ComputeD ==
    /\ prog = "RSAsignature"
    /\ out.pc = "inverse"
    /\ LET d == RSAsig_mod_inverse(out.e, out.phi)
       IN  /\ out' = [pc |-> "done", res |-> d]
           /\ keys' = IF d.kind = "return"
                      THEN [e |-> out.e, n |-> out.n, d |-> d.val] ELSE keys
    /\ UNCHANGED prog

\* prime1, prime2 = generate_large_prime(1000, 10000), prime2 drawn again
\* while it equals prime1; e = 65537
rsa_DrawPrimes ==
    /\ prog = "rsa"
    /\ out.pc = "start"
    /\ \E prime1 \in generate_large_prime(RSAPrimeLow, RSAPrimeHigh) :
       \E prime2 \in generate_large_prime(RSAPrimeLow, RSAPrimeHigh)
                        \ {prime1} :
          out' = [pc |-> "choose_e", n |-> prime1 * prime2,
                  phi |-> (prime1 - 1) * (prime2 - 1), e |-> RSAExponent]
    /\ UNCHANGED <<prog, keys>>

\* if math.gcd(e, phi) != 1: e = random.randint(2, phi - 1), drawn again
\* while math.gcd(e, phi) != 1: one test and, when it holds, one draw
rsa_ChooseE ==
    /\ prog = "rsa"
    /\ out.pc = "choose_e"
    /\ IF math_gcd(out.e, out.phi) # 1
       THEN \E e \in 2..Min(out.phi - 1, MaxEDraw) : out' = [out EXCEPT !.e = e]
       ELSE out' = [out EXCEPT !.pc = "inverse"]
    /\ UNCHANGED <<prog, keys>>

\* d = mod_inverse(e, phi); return (e, n), (d, n)
rsa_ComputeD ==
    /\ prog = "rsa"
    /\ out.pc = "inverse"
    /\ LET d == mod_inverse(out.e, out.phi)
       IN  /\ out' = [pc |-> "done", res |-> d]
           /\ keys' = IF d.kind = "return"
                      THEN [e |-> out.e, n |-> out.n, d |-> d.val] ELSE keys
    /\ UNCHANGED prog

\* main(), choice 3: the keys are generated again
KeyGenAgain ==
    /\ out.pc = "done"
    /\ out' = [pc |-> "start"]
    /\ UNCHANGED <<prog, keys>>

KeyGenInit ==
    /\ prog \in {"RSAsignature", "rsa"}
    /\ keys = NoKeys
    /\ out = [pc |-> "start"]

KeyGenNext ==
    \/ RSAsig_DrawPrimes
    \/ RSAsig_ChooseE
    \/ RSAsig_ComputeD
    \/ rsa_DrawPrimes
    \/ rsa_ChooseE
    \/ rsa_ComputeD
    \/ KeyGenAgain

\* the interpreter keeps executing the loop that selects e: its next test is
\* always made
SpecKeyGen ==
    KeyGenInit /\ [][KeyGenNext]_vars
        /\ WF_vars(RSAsig_ChooseE) /\ WF_vars(rsa_ChooseE)

(***************************************************************************)
(* The prime searches of the three scripts that have one, inside the key   *)
(* generation that calls them, one step per draw and one per call of the   *)
(* oracle.  out.pc is the position: "call" before generate_prime is        *)
(* entered, "draw" at the top of its loop, "test" at the oracle call,      *)
(* "done" once it has returned, "raised" when the key generation has       *)
(* raised, which ends the script.                                          *)
(***************************************************************************)
\* bit lengths generate_prime(bits) is called with, and the largest draw
MaxSearchBits == 3
MaxSearchDraw == 7

\* the calls generate_prime(min_val, max_val) followed step by step
SearchRanges ==
    {mm \in (0..MaxSearchDraw) \X (0..MaxSearchDraw) : mm[1] <= mm[2]}

ForcedOdd(c) == IF c % 2 = 0 THEN c + 1 ELSE c

\* generate_keypair: p = generate_prime(bits // 2) is entered, bits the
\* argument of generate_prime; found holds the primes generate_keypair has
\* got so far
RSAsig_PrimeCall ==
    /\ prog = "RSAsignature"
    /\ out.pc = "call"
    /\ \E bits \in 1..MaxSearchBits :
          out' = [pc |-> "draw", bits |-> bits, found |-> <<>>]
    /\ UNCHANGED <<prog, keys>>

\* p = random.getrandbits(bits) returning x; p |= 1
RSAsig_PrimeDraw(x) ==
    /\ prog = "RSAsignature"
    /\ out.pc = "draw"
    /\ x < Pow2(out.bits)
    /\ out' = [pc |-> "test", bits |-> out.bits, found |-> out.found,
               p |-> ForcedOdd(x)]
    /\ UNCHANGED <<prog, keys>>

\* if is_prime(p): return p, the oracle answering b
RSAsig_PrimeTest(b) ==
    /\ prog = "RSAsignature"
    /\ out.pc = "test"
    /\ b \in {c \in BOOLEAN : RSAsig_is_prime(out.p, MRRounds, c)}
    /\ out' = IF b THEN [pc |-> "done", bits |-> out.bits,
                         found |-> out.found, res |-> Return(out.p)]
              ELSE [pc |-> "draw", bits |-> out.bits, found |-> out.found]
    /\ UNCHANGED <<prog, keys>>

\* generate_keypair: q = generate_prime(bits // 2) is entered once p is there
RSAsig_PrimeSecond ==
    /\ prog = "RSAsignature"
    /\ out.pc = "done"
    /\ out.found = <<>>
    /\ out' = [pc |-> "draw", bits |-> out.bits, found |-> <<out.res.val>>]
    /\ UNCHANGED <<prog, keys>>

\* generate_keypair from n = p * q on, once q is there, and the assignment
\* keys = generate_keypair(bits) of main()
RSAsig_PrimeKeys ==
    /\ prog = "RSAsignature"
    /\ out.pc = "done"
    /\ Len(out.found) = 1
    /\ LET p == out.found[1]
           q == out.res.val
           phi == (p - 1) * (q - 1)
       IN  \E e \in RSAsig_choose_e(phi) :
              LET d == RSAsig_mod_inverse(e, phi)
              IN  IF d.kind = "return"
                  THEN /\ keys' = [e |-> e, n |-> p * q, d |-> d.val]
                       /\ out' = [pc |-> "call"]
                  ELSE /\ keys' = keys
                       /\ out' = [pc |-> "raised"]
    /\ UNCHANGED prog

\* generate_keypair: ElGamalSignature.generate_prime(min_prime, max_prime) is
\* entered
EGsig_PrimeCall ==
    /\ prog = "Elgamelsignature"
    /\ out.pc = "call"
    /\ \E mm \in SearchRanges :
          out' = [pc |-> "draw", min_val |-> mm[1], max_val |-> mm[2]]
    /\ UNCHANGED <<prog, keys>>

\* p = random.randint(min_val, max_val) returning c; if p % 2 == 0: p += 1
EGsig_PrimeDraw(c) ==
    /\ prog = "Elgamelsignature"
    /\ out.pc = "draw"
    /\ out.min_val <= c /\ c <= out.max_val
    /\ out' = [pc |-> "test", min_val |-> out.min_val, max_val |-> out.max_val,
               p |-> ForcedOdd(c)]
    /\ UNCHANGED <<prog, keys>>

\* if ElGamalSignature.is_prime(p): return p, the oracle answering b
EGsig_PrimeTest(b) ==
    /\ prog = "Elgamelsignature"
    /\ out.pc = "test"
    /\ b \in {c \in BOOLEAN : EGsig_is_prime(out.p, MRRounds, c)}
    /\ out' = IF b THEN [pc |-> "done", min_val |-> out.min_val,
                         max_val |-> out.max_val, res |-> Return(out.p)]
              ELSE [pc |-> "draw", min_val |-> out.min_val,
                    max_val |-> out.max_val]
    /\ UNCHANGED <<prog, keys>>

\* generate_keypair from g = find_generator(p) on, once generate_prime has returned,
\* and the assignment keys = generate_keypair(min_prime, max_prime) of main(); an
\* exception ends the script
EGsig_PrimeKeys ==
    /\ prog = "Elgamelsignature"
    /\ out.pc = "done"
    /\ \E res \in EGsig_keypair_of(out.res.val) :
          IF res.kind = "return"
          THEN keys' = res.val /\ out' = [pc |-> "call"]
          ELSE keys' = keys /\ out' = [pc |-> "raised"]
    /\ UNCHANGED prog

\* generate_elgamal_keys: ElGamalCrypto.generate_prime(min_prime, max_prime)
\* is entered
gamel_PrimeCall ==
    /\ prog = "gamel"
    /\ out.pc = "call"
    /\ \E mm \in SearchRanges :
          out' = [pc |-> "draw", min_val |-> mm[1], max_val |-> mm[2]]
    /\ UNCHANGED <<prog, keys>>

\* candidate = random.randint(min_val, max_val) returning c;
\* if candidate % 2 == 0: candidate += 1
gamel_PrimeDraw(c) ==
    /\ prog = "gamel"
    /\ out.pc = "draw"
    /\ out.min_val <= c /\ c <= out.max_val
    /\ out' = [pc |-> "test", min_val |-> out.min_val, max_val |-> out.max_val,
               p |-> ForcedOdd(c)]
    /\ UNCHANGED <<prog, keys>>

\* if ElGamalCrypto.is_prime(candidate): return candidate, the oracle
\* answering b
gamel_PrimeTest(b) ==
    /\ prog = "gamel"
    /\ out.pc = "test"
    /\ b \in {c \in BOOLEAN : gamel_is_prime(out.p, MRRounds, c)}
    /\ out' = IF b THEN [pc |-> "done", min_val |-> out.min_val,
                         max_val |-> out.max_val, res |-> Return(out.p)]
              ELSE [pc |-> "draw", min_val |-> out.min_val,
                    max_val |-> out.max_val]
    /\ UNCHANGED <<prog, keys>>

\* generate_elgamal_keys from g = find_generator(p) on, once generate_prime has returned,
\* and the assignment keys = generate_elgamal_keys(min_prime, max_prime) of main(); an
\* exception ends the script
gamel_PrimeKeys ==
    /\ prog = "gamel"
    /\ out.pc = "done"
    /\ \E res \in gamel_keys_of(out.res.val) :
          IF res.kind = "return"
          THEN keys' = res.val /\ out' = [pc |-> "call"]
          ELSE keys' = keys /\ out' = [pc |-> "raised"]
    /\ UNCHANGED prog

PrimeSearchInit ==
    /\ prog \in {"RSAsignature", "Elgamelsignature", "gamel"}
    /\ keys = NoKeys
    /\ out = [pc |-> "call"]

PrimeSearchNext ==
    \/ RSAsig_PrimeCall
    \/ \E x \in 0..MaxSearchDraw : RSAsig_PrimeDraw(x)
    \/ \E b \in BOOLEAN : RSAsig_PrimeTest(b)
    \/ EGsig_PrimeCall
    \/ \E c \in 0..MaxSearchDraw : EGsig_PrimeDraw(c)
    \/ \E b \in BOOLEAN : EGsig_PrimeTest(b)
    \/ gamel_PrimeCall
    \/ \E c \in 0..MaxSearchDraw : gamel_PrimeDraw(c)
    \/ \E b \in BOOLEAN : gamel_PrimeTest(b)
    \/ RSAsig_PrimeSecond
    \/ RSAsig_PrimeKeys
    \/ EGsig_PrimeKeys
    \/ gamel_PrimeKeys

\* the draw of the running script returns x
PrimeDraw(x) ==
    RSAsig_PrimeDraw(x) \/ EGsig_PrimeDraw(x) \/ gamel_PrimeDraw(x)

\* the oracle of the running script answers b
PrimeTest(b) ==
    RSAsig_PrimeTest(b) \/ EGsig_PrimeTest(b) \/ gamel_PrimeTest(b)

\* fair random draws: the interpreter keeps executing the loop (the test
\* that is due is made), every value the generator can return at the draw is
\* returned again and again, and an oracle that can accept the candidate it
\* is given again and again does accept it
SpecPrimeSearch ==
    /\ PrimeSearchInit /\ [][PrimeSearchNext]_vars
    /\ \A x \in 0..MaxSearchDraw : SF_vars(PrimeDraw(x))
    /\ WF_vars(\E b \in BOOLEAN : PrimeTest(b))
    /\ SF_vars(PrimeTest(TRUE))

(***************************************************************************)
(* Properties.  Reference notions, independent of the scripts' arithmetic. *)
(***************************************************************************)
\* g^x mod p for any integer x: for x < 0 the inverse of g^(-x), -1 when
\* there is none
ModExpRef(g, x, p) ==
    IF x >= 0 THEN PowRef(g, x, p)
    ELSE LET S == {v \in 0..(p - 1) : (v * PowRef(g, -x, p)) % p = 1 % p}
         IN  IF S = {} THEN -1 ELSE CHOOSE v \in S : TRUE

\* the powers g^0 .. g^(p-2) mod p are a permutation of 1..p-1
IsGenerator(g, p) == {PowRef(g, i, p) : i \in 0..(p - 2)} = 1..(p - 1)

PrimeDivisors(n) == {f \in 2..n : n % f = 0 /\ IsPrime(f)}

\* the key pair k is one generate_keypair(bits) of RSAsignature.py returns
RSAsig_IsGenerated(k) ==
    \E g \in RSAsig_generated :
        g.d.kind = "return" /\ k = [e |-> g.e, n |-> g.n, d |-> g.d.val]

\* out is a key generation of one of the two RSA scripts that returned
RSAGenerationReturned ==
    /\ \/ prog = "RSAsignature" /\ out.op = "generate_keypair"
       \/ prog = "rsa" /\ out.op = "generate_rsa_keys"
    /\ out.res.kind = "return"

\* out is an ElGamal key construction of one of the two ElGamal scripts
ElGamalConstruction ==
    /\ prog \in {"Elgamelsignature", "gamel"}
    /\ out.op \in {"generate_keypair", "generate_elgamal_keys",
                   "create_keys_from_components"}

\* C1: RSA sign/verify round trip: for every key pair generate_keypair(bits)
\* returns with bits >= 16 and every digest h with 0 <= h < n, verify accepts
\* the signature sign produced.
C1_SignVerifyRoundTrip ==
    (/\ prog = "RSAsignature"
     /\ out.op = "verify"
     /\ RSAsig_IsGenerated(keys)
     /\ out.received = Wide(out.signed)
     /\ 0 <= out.h /\ out.h < keys.n)
    => out.res = TRUE

\* C2: ElGamal sign/verify round trip: for every key pair generate_keypair
\* returns, every digest and every nonce k the selection loop accepts, verify
\* accepts the pair (r, s) that sign returned.
C2_SignVerifyRoundTrip ==
    (/\ prog = "Elgamelsignature"
     /\ out.op = "verify"
     /\ Return(keys) \in EGsig_generated
     /\ out.flip = -1)
    => out.res = TRUE

\* C3: RSA encryption round trip: for every key pair generate_rsa_keys
\* returns and every sequence of character codes < n, the empty one included,
\* decrypt_rsa(encrypt_rsa(units, public), private) returns the sequence.
C3_EncryptionRoundTrip ==
    (prog = "rsa" /\ out.op = "decrypt") => out.res = Return(out.plaintext)

\* C4: ElGamal encryption round trip: for every key pair generate_elgamal_keys
\* returns, every sequence of units < p and every per-unit nonce k,
\* decrypt_elgamal(encrypt_elgamal(units, keys), keys) returns the sequence.
C4_EncryptionRoundTrip ==
    (/\ prog = "gamel"
     /\ out.op = "decrypt"
     /\ Return(out.key) \in gamel_generated)
    => out.res = Return(out.plaintext)

\* C5: tamper detection: for every key pair generate_keypair returns and
\* every signature (r, s) sign returned, verify returns False on (r, s') when
\* s' differs from s in exactly one bit.
C5_TamperDetected ==
    (/\ prog = "Elgamelsignature"
     /\ out.op = "verify"
     /\ Return(keys) \in EGsig_generated
     /\ out.flip >= 0)
    => out.res = FALSE

\* C6: the simplified find_generator of Elgamelsignature.py returns, for every
\* odd prime p, an element of multiplicative order p - 1.
C6_SimplifiedGenerator ==
    (/\ prog = "Elgamelsignature"
     /\ out.op = "find_generator"
     /\ out.p > 2 /\ IsPrime(out.p))
    => IsGenerator(out.res.val, out.p)

\* C7: the find_generator of gamel.py returns, for every odd prime p, the
\* smallest g >= 2 with g^((p-1)/f) mod p # 1 for every prime factor f of
\* p - 1, and the powers g^0 .. g^(p-2) mod p are a permutation of 1..p-1.
C7_FullOrderGenerator ==
    (/\ prog = "gamel"
     /\ out.op = "find_generator"
     /\ out.p > 2 /\ IsPrime(out.p))
    => LET p == out.p
           g == out.res.val
           Full(c) == \A f \in PrimeDivisors(p - 1) :
                          PowRef(c, (p - 1) \div f, p) # 1
       IN  /\ 2 <= g /\ g < p
           /\ Full(g)
           /\ \A c \in 2..(g - 1) : ~Full(c)
           /\ IsGenerator(g, p)

\* find_generator(11) returned a g whose powers cover 1..10
C7_Witness ==
    /\ prog = "gamel"
    /\ out.op = "find_generator"
    /\ out.p = 11
    /\ IsGenerator(out.res.val, 11)

\* C8: every RSA key pair that key generation produces has a modulus
\* n = p * q with p and q two distinct primes: p = q never reaches the key.
C8_DistinctPrimes ==
    RSAGenerationReturned
    => /\ keys.n = out.p * out.q
       /\ IsPrime(out.p) /\ IsPrime(out.q)
       /\ out.p # out.q

\* C9: every RSA key pair generate_keypair / generate_rsa_keys returns has
\* e * d mod phi = 1 with phi = (p-1)(q-1), gcd(e, phi) = 1 and 0 <= d < phi;
\* e is 65537 when gcd(65537, phi) = 1 and a resampled value of 2..phi-1 only
\* otherwise.
C9_ExponentsInverse ==
    RSAGenerationReturned
    => LET phi == out.phi
           e == keys.e
           d == keys.d
       IN  /\ phi = (out.p - 1) * (out.q - 1)
           /\ MulMod(e % phi, d, phi) = 1
           /\ GCD(e, phi) = 1
           /\ 0 <= d /\ d < phi
           /\ GCD(65537, phi) = 1 => e = 65537
           /\ GCD(65537, phi) # 1 => e # 65537 /\ 2 <= e /\ e < phi

\* a key pair whose e was resampled because 65537 divides p - 1
C9_Witness ==
    /\ RSAGenerationReturned
    /\ GCD(65537, out.phi) # 1
    /\ keys.e # 65537
    /\ keys.d > 1

\* C10: every ElGamal key pair that key generation or
\* create_keys_from_components (in each of its four branches) returns has
\* y = g^x mod p, and no key pair is returned when x and y are both supplied
\* with y # g^x mod p.
C10_KeyEquation ==
    ElGamalConstruction
    => /\ out.res.kind = "return"
          => out.res.val.y =
                 ModExpRef(out.res.val.g, out.res.val.x, out.res.val.p)
       /\ (/\ out.op = "create_keys_from_components"
           /\ out.branch = "both"
           /\ out.y[1] # ModExpRef(out.g, out.x[1], out.p))
          => out.res.kind # "return"

\* C11: every ElGamal key pair that key generation (both scripts) or
\* create_keys_from_components returns has a private exponent x with
\* 1 < x < p - 1.
C11_PrivateExponentRange ==
    (ElGamalConstruction /\ out.res.kind = "return")
    => 1 < out.res.val.x /\ out.res.val.x < out.res.val.p - 1


\* the exponent of 2 in m > 0, and whether a round with witness a passes:
\* a^d is 1 or n - 1, or one of the r - 1 squarings that follow gives n - 1,
\* where n - 1 = 2^r * d with d odd
TwoAdic(m) == CHOOSE j \in 0..29 : m % Pow2(j) = 0 /\ m % Pow2(j + 1) # 0

RoundPassesRef(n, a) ==
    LET r == TwoAdic(n - 1)
        d == (n - 1) \div Pow2(r)
    IN  \/ PowRef(a, d, n) \in {1, n - 1}
        \/ \E j \in 1..(r - 1) : PowRef(a, d * Pow2(j), n) = n - 1

\* the composites the oracle is called on, each with the witnesses of
\* [2, n-2] that let a round pass
OracleComposites ==
    {n \in (4..MaxOracleN) \cup KnownNumbers : ~IsPrime(n)}

StrongLiars ==
    [n \in OracleComposites |-> {a \in 2..(n - 2) : RoundPassesRef(n, a)}]

\* C12: is_prime never rejects a prime: whenever one of the three is_prime
\* implementations is called on a prime n, with any round count and any
\* witnesses drawn from [2, n-2], it returns True.
C12_PrimesAccepted ==
    (out.op = "is_prime" /\ IsPrime(out.n)) => out.res = Return(TRUE)

C12_Witness ==
    /\ out.op = "is_prime"
    /\ out.n = 7919
    /\ Len(out.witnesses) = 1
    /\ out.res = Return(TRUE)

\* C13: is_prime returns False for every n <= 1 and every even n > 2 whatever
\* witnesses are drawn, and returns True for 2 and 3 without drawing any
\* witness (checked for calls that ask for at least one round).
C13_TrivialRejection ==
    (out.op = "is_prime" /\ out.k >= 1)
    => /\ out.n <= 1 => out.res = Return(FALSE) /\ out.witnesses = <<>>
       /\ (out.n > 2 /\ out.n % 2 = 0) => out.res = Return(FALSE)
       /\ out.n \in {2, 3} => out.res = Return(TRUE) /\ out.witnesses = <<>>

\* C14: for a composite n >= 4 on which is_prime draws a witness, at most a
\* quarter of the witnesses of [2, n-2] let a round pass; a False answer comes
\* at the first drawn witness that does not pass, a True answer only after
\* all k witnesses passed; and 4, 9, 100 and 561 each have a witness in
\* [2, n-2] that does not pass.
C14_CompositeRejection ==
    /\ (out.op = "is_prime" /\ out.n >= 4 /\ ~IsPrime(out.n)
            /\ Len(out.witnesses) >= 1)
       => LET liars == StrongLiars[out.n]
              drawn == out.witnesses
          IN  /\ 4 * Cardinality(liars) <= Cardinality(2..(out.n - 2))
              /\ out.res = Return(FALSE)
                 => /\ drawn[Len(drawn)] \notin liars
                    /\ \A i \in 1..(Len(drawn) - 1) : drawn[i] \in liars
              /\ out.res = Return(TRUE)
                 => /\ Len(drawn) = out.k
                    /\ \A i \in 1..Len(drawn) : drawn[i] \in liars
    /\ (out.op = "is_prime" /\ out.n \in {4, 9, 100, 561})
       => \E a \in 2..(out.n - 2) : ~RoundPassesRef(out.n, a)

C14_Witness ==
    /\ out.op = "is_prime"
    /\ out.n = 25
    /\ out.k = 2
    /\ Len(out.witnesses) = 2
    /\ out.res = Return(TRUE)


\* C15: whatever generate_prime(min_val, max_val) returns, for min_val <=
\* max_val and any draw, lies in [min_val, max_val] and is a value its
\* is_prime can accept.
C15_PrimeInRange ==
    out.op = "generate_prime"
    => /\ out.min_val <= out.res.val /\ out.res.val <= out.max_val
       /\ \/ prog = "Elgamelsignature"
             /\ EGsig_is_prime(out.res.val, MRRounds, TRUE)
          \/ prog = "gamel" /\ gamel_is_prime(out.res.val, MRRounds, TRUE)


\* C16 as stated: for every m >= 1 and a >= 0 with gcd(a, m) = 1, each of
\* the four mod_inverse returns x with 0 <= x < m and (a * x) % m = 1.
C16_InverseContract ==
    (out.op = "mod_inverse" /\ GCD(out.a, out.m) = 1)
    => /\ out.res.kind = "return"
       /\ 0 <= out.res.val /\ out.res.val < out.m
       /\ (out.a * out.res.val) % out.m = 1

\* C16 amended: the same for every m >= 2; for m = 1 the value returned is
\* 0, the only x with 0 <= x < m, and (a * x) % m is 0.
C16_InverseContractAmended ==
    (out.op = "mod_inverse" /\ GCD(out.a, out.m) = 1)
    => /\ out.res.kind = "return"
       /\ 0 <= out.res.val /\ out.res.val < out.m
       /\ out.m >= 2 => (out.a * out.res.val) % out.m = 1
       /\ out.m = 1 => out.res.val = 0

C16_Witness ==
    /\ out.op = "mod_inverse"
    /\ out.a = 10
    /\ out.m = 7
    /\ out.res = Return(5)

\* C17: whenever gcd(a, m) # 1, each of the four mod_inverse raises an error
\* and returns nothing to its caller.
C17_NoInverseRaises ==
    (out.op = "mod_inverse" /\ GCD(out.a, out.m) # 1)
    => out.res.kind = "raise"


\* b^e mod m by e multiplications
RECURSIVE PowLinear(_, _, _)
PowLinear(b, e, m) ==
    IF e = 0 THEN 1 % m ELSE (PowLinear(b, e - 1, m) * (b % m)) % m

\* C18: mod_pow(base, exponent, modulus) is base^exponent mod modulus for
\* base >= 0, exponent >= 0, modulus >= 1: 0 when modulus = 1, and 1 when
\* exponent = 0 and modulus > 1.
C18_ModPow ==
    out.op = "mod_pow"
    => /\ out.res = Return(PowLinear(out.base, out.exponent, out.modulus))
       /\ out.modulus = 1 => out.res = Return(0)
       /\ (out.exponent = 0 /\ out.modulus > 1) => out.res = Return(1)

C18_Witness ==
    /\ out.op = "mod_pow"
    /\ out.base = 2
    /\ out.exponent = 10
    /\ out.modulus = 13
    /\ out.res = Return(10)


\* C19: ElGamal verify returns False whenever r <= 0, r >= p, s <= 0 or
\* s >= p - 1 (r = 0 and r = p included), and otherwise returns True exactly
\* when g^h mod p = (y^r * r^s) mod p, h being the digest reduced modulo p;
\* it never raises.
C19_VerifyRange ==
    (prog = "Elgamelsignature" /\ out.op \in {"verify", "verify_entered"})
    => LET p == keys.p
           r == out.signature[1]
           s == out.signature[2]
       IN  /\ out.res \in BOOLEAN
           /\ (r <= 0 \/ r >= p \/ s <= 0 \/ s >= p - 1) => out.res = FALSE
           /\ (0 < r /\ r < p /\ 0 < s /\ s < p - 1)
              => out.res = (PowRef(keys.g, out.D % p, p)
                             = (PowRef(keys.y, r, p) * PowRef(r, s, p)) % p)

C19_Witness ==
    /\ prog = "Elgamelsignature"
    /\ out.op = "verify_entered"
    /\ out.signature[1] = keys.p
    /\ 0 < out.signature[2] /\ out.signature[2] < keys.p - 1
    /\ out.res = FALSE

\* the wide integer w is in [0, n), n within the model's width
RECURSIVE DigitsValue(_, _)
DigitsValue(digits, acc) ==
    IF Len(digits) = 0 THEN acc
    ELSE DigitsValue(Tail(digits), 256 * acc + Head(digits))

WideBelow(w, n) ==
    /\ ~w.neg
    /\ Len(w.digits) <= 4
    /\ (Len(w.digits) = 4 => w.digits[1] < 64)
    /\ DigitsValue(w.digits, 0) < n

\* C20: RSA verify returns False for every signature value outside [0, n):
\* negative, or >= n such as a valid signature plus n.
C20_MalformedRejected ==
    (prog = "RSAsignature" /\ out.op = "verify"
        /\ ~WideBelow(out.received, keys.n))
    => out.res = FALSE


\* b^e mod m from b^e = (b^(e div 2))^2 * b^(e mod 2), for large e
RECURSIVE PowHalving(_, _, _)
PowHalving(b, e, m) ==
    IF e = 0 THEN 1 % m
    ELSE LET half == PowHalving(b, e \div 2, m)
         IN  IF half < 0 THEN 0
             ELSE IF e % 2 = 1
             THEN MulMod(MulMod(half, half, m), b % m, m)
             ELSE MulMod(half, half, m)

\* C21: RSA sign raises, returning no signature, exactly when the digest h
\* is >= n; otherwise it returns the integer h^d mod n, which lies in [0, n).
C21_SignRange ==
    (prog = "RSAsignature" /\ out.op = "sign")
    => LET n == PrivateModulus(keys)
       IN  /\ out.res.kind = "raise" <=> out.h >= n
           /\ out.h < n
              => /\ out.res = Return(PowHalving(out.h, keys.d, n))
                 /\ 0 <= out.res.val /\ out.res.val < n

C21_Witness ==
    /\ prog = "RSAsignature"
    /\ out.op = "sign"
    /\ out.h = PrivateModulus(keys)
    /\ out.res.kind = "raise"


\* C22: RSA create_keys_from_components(e, d, n), given n and exactly one of
\* e and d, returns a key pair and prints a warning; it returns no key only
\* when n is missing or both exponents are missing.
C22_PartialSpecification ==
    (prog = "RSAsignature" /\ out.op = "create_keys_from_components")
    => /\ (out.n # <<>> /\ ((out.e = <<>>) # (out.d = <<>>)))
          => out.res.kind = "return" /\ out.warning
       /\ out.res.kind # "return"
          => out.n = <<>> \/ (out.e = <<>> /\ out.d = <<>>)

\* whether e and d are inverse exponents for n: (m^e)^d mod n = m for every
\* m in [0, n)
InverseExponents(e, d, n) ==
    \A m \in 0..(n - 1) : PowRef(PowRef(m, e, n), d, n) = m


\* C23: when the e, d and n supplied to RSA key construction are not inverse
\* exponents for n, construction fails and the key pair held before stays.
C23_ComponentsRevalidated ==
    /\ (prog = "RSAsignature" /\ out.op = "create_keys_from_components"
            /\ out.e # <<>> /\ out.d # <<>> /\ out.n # <<>>
            /\ ~InverseExponents(out.e[1], out.d[1], out.n[1]))
       => out.res.kind # "return" /\ keys = out.held
    /\ (prog = "rsa" /\ out.op = "enter_keys"
            /\ ~InverseExponents(out.e, out.d, out.n))
       => out.res.kind # "return" /\ keys = out.held


\* an ElGamal key pair on a prime p: 1 < g < p, 0 < x < p - 1, y = g^x mod p
ValidElGamalKey(ks) ==
    /\ IsPrime(ks.p)
    /\ 1 < ks.g /\ ks.g < ks.p
    /\ 0 < ks.x /\ ks.x < ks.p - 1
    /\ ks.y = PowRef(ks.g, ks.x, ks.p)

\* C24: a ciphertext or signature produced under one valid key pair and
\* handed to decrypt or verify under another valid key pair never makes them
\* raise: decrypt_rsa and decrypt_elgamal return a message, verify returns a
\* boolean.
C24_WrongKeyNoException ==
    /\ (prog = "gamel" /\ out.op = "decrypt_entered"
            /\ ValidElGamalKey(keys) /\ ValidElGamalKey(out.producer))
       => out.res.kind = "return"
    /\ (prog = "rsa" /\ out.op = "decrypt_entered"
            /\ keys \in rsa_generated_keys)
       => out.res.kind = "return"
    /\ (prog = "Elgamelsignature" /\ out.op = "verify_other"
            /\ ValidElGamalKey(keys) /\ ValidElGamalKey(out.producer))
       => out.res \in BOOLEAN


\* C25: RSA key generation never stays in the loop that selects e: once the
\* loop is reached it is left after a bounded number of draws, with a valid
\* e or with an error.
C25_ExponentLoopEnds == (out.pc = "choose_e") ~> (out.pc # "choose_e")


\* C26: for every prime p, find_generator of both scripts returns from inside
\* its scan or from an explicit special case, never from the fallback
\* `return 2` after the scan.
C26_FallbackOnlyForComposites ==
    (out.op = "find_generator" /\ IsPrime(out.p)) => out.exit # "fallback"


\* the numbers an RSA ciphertext text carries: the decimal numbers between the
\* commas of the decoded text, none for the empty text
CiphertextNumbers(text) ==
    LET decoded == b64decode(text)
    IN  IF decoded.kind # "return" THEN <<-1>>
        ELSE IF decoded.val = <<>> THEN <<>>
        ELSE LET parts == split(decoded.val, <<>>)
             IN  [i \in 1..Len(parts) |->
                    IF int(parts[i]).kind = "return" THEN int(parts[i]).val ELSE -1]

\* C27: encrypt_rsa and encrypt_elgamal raise exactly when some unit of the
\* message is >= the modulus (n, resp. p), and then return no ciphertext at
\* all; otherwise there is one ciphertext unit per message unit, every RSA
\* number c has 0 <= c < n and every ElGamal pair has 0 <= c1, c2 < p
C27_EncryptRange ==
    (out.op = "encrypt" /\ prog \in {"rsa", "gamel"}) =>
        LET modulus == IF prog = "rsa" THEN out.key.n ELSE out.key.p
            toolarge == \E i \in 1..Len(out.plaintext) : out.plaintext[i] >= modulus
        IN  /\ out.res.kind \in {"return", "raise"}
            /\ (out.res.kind = "raise") <=> toolarge
            /\ (out.res.kind = "return" /\ prog = "rsa") =>
                  LET cs == CiphertextNumbers(out.res.val)
                  IN  /\ Len(cs) = Len(out.plaintext)
                      /\ \A i \in 1..Len(cs) : 0 <= cs[i] /\ cs[i] < modulus
            /\ (out.res.kind = "return" /\ prog = "gamel") =>
                  /\ Len(out.res.val) = Len(out.plaintext)
                  /\ \A i \in 1..Len(out.res.val) :
                        /\ 0 <= out.res.val[i][1] /\ out.res.val[i][1] < modulus
                        /\ 0 <= out.res.val[i][2] /\ out.res.val[i][2] < modulus

\* an ElGamal encryption refused at a later unit, after an earlier unit was
\* in range
C27_Witness ==
    /\ prog = "gamel" /\ out.op = "encrypt" /\ out.res.kind = "raise"
    /\ Len(out.plaintext) >= 2
    /\ out.plaintext[1] < out.key.p


\* the oracle of the running script can accept n
OracleAccepts(n) ==
    IF prog = "RSAsignature" THEN RSAsig_is_prime(n, MRRounds, TRUE)
    ELSE IF prog = "Elgamelsignature" THEN EGsig_is_prime(n, MRRounds, TRUE)
    ELSE gamel_is_prime(n, MRRounds, TRUE)

\* the search in progress is one the claim promises an end to: a call with
\* bits >= 1, or a range holding an integer that, forced odd, the oracle
\* accepts
SearchPromised ==
    /\ out.pc \in {"draw", "test"}
    /\ IF prog = "RSAsignature" THEN out.bits >= 1
       ELSE \E c \in out.min_val..out.max_val : OracleAccepts(ForcedOdd(c))

\* C28: under fair random draws generate_prime(min_val, max_val) eventually
\* returns whenever some integer of [min_val, max_val], forced odd, is a value
\* the oracle accepts, and generate_prime(bits) eventually returns for every
\* bits >= 1; a value that is returned is one the oracle accepted
C28_PrimeSearchReturns ==
    /\ SearchPromised ~> (out.pc = "done")
    /\ [](out.pc = "done" => OracleAccepts(out.res.val))

\* the same for the searches other than generate_prime(1)
C28_ExceptOneBit ==
    /\ (SearchPromised /\ (prog = "RSAsignature" => out.bits >= 2))
          ~> (out.pc = "done")
    /\ [](out.pc = "done" => OracleAccepts(out.res.val))


\* C29: ElGamal sign never fails on a constructed key: for every key pair
\* generate_keypair or create_keys_from_components returned, the draw range
\* [2, p-2] for k is not empty and holds a k with gcd(k, p-1) = 1, and sign
\* returns a signature without raising
C29_SignNeverFails ==
    (prog = "Elgamelsignature" /\ out.op = "sign") =>
        /\ 2 <= out.key.p - 2
        /\ \E k \in 2..(out.key.p - 2) : GCD(k, out.key.p - 1) = 1
        /\ out.res.kind = "return"


\* C30: ElGamal key generation is total on its own prime: for every prime
\* generate_prime(min_prime, max_prime) can return, 3 included,
\* generate_keypair and generate_elgamal_keys return a key pair without
\* raising
C30_KeyGenerationTotal ==
    (\/ prog = "Elgamelsignature" /\ out.op = "generate_keypair"
     \/ prog = "gamel" /\ out.op = "generate_elgamal_keys")
    => out.res.kind = "return"

\* the part of C30 about gamel.py alone
C30_GamelKeyGenerationTotal ==
    (prog = "gamel" /\ out.op = "generate_elgamal_keys")
    => out.res.kind = "return" /\ out.res.val.x \in 1..(out.res.val.p - 2)

====
